---- MODULE Spec2Model ----
(***************************************************************************)
(* A model of the LilFox API gateway (src/gateway): the circuit breaker,   *)
(* the proxy pipeline that wraps every forwarded request in a breaker      *)
(* call, and the load balancer's retry loop.                               *)
(*                                                                         *)
(* The gateway runs on one asyncio event loop: a coroutine runs without    *)
(* interruption from one suspension point to the next.  None of the        *)
(* critical sections guarded by an asyncio.Lock contains a suspension, so  *)
(* a lock is never found taken and each `async with lock:` block is one    *)
(* atomic step.  The suspension points are the outbound HTTP calls, the    *)
(* retry sleep and the wrapped function of CircuitBreaker.call.            *)
(*                                                                         *)
(* Three specifications share the module:                                  *)
(*   SpecBreaker   CircuitBreaker.call / reset on one cell, with an        *)
(*                 arbitrary wrapped function (returns, raises, cancelled) *)
(*   Spec          the proxy route of main.py, through route_request       *)
(*   SpecBalancer  LoadBalancer.retry_request with its select / release    *)
(***************************************************************************)
EXTENDS Integers, Sequences, FiniteSets, TLC

\* ---------------------------------------------------------------- bounds
\* Largest reading of the clock (datetime.utcnow(), in timeout units).
MaxTime == 3
\* Number of calls made through one breaker cell (one per caller task).
NumCallers == 3
\* Largest value tried for each of the breaker's thresholds.
MaxThreshold == 2
\* Number of inbound requests on the proxy route.
NumRequests == 2
\* Largest number of health checks recorded in a row for an instance.
MaxChecks == 1
\* The same for the registry on its own, where an instance is checked again.
MaxRechecks == 2

\* Python's None in a field that otherwise holds a clock reading.
\* tasks running retry_request
NumTasks == 2

\* is_allowed calls made in all
NumCalls == 3
\* Largest RATE_LIMIT_REQUESTS_PER_MINUTE and RATE_LIMIT_BURST_SIZE tried
MaxRate == 2
\* SpecLifecycle: the last clock reading, and the instances registered
\* at a time
MaxClock == 1
MaxInstances == 2
\* SpecWeighted: the largest weight registered
MaxWeight == 2

NoTime == -1

VARIABLES
    now,              \* the clock
    settings,         \* config/settings.py: the process-wide Settings object
    breakers,         \* CircuitBreakerManager.breakers: name -> CircuitBreaker
    call_pc,          \* SpecBreaker: where each caller of CircuitBreaker.call is
    \* history of the observed cell, kept for the properties only
    last_op,          \* the last operation that ran on the cell
    opened_at,        \* clock reading of the latest transition to OPEN
    opened_from,      \* state the cell left at that transition
    reset_since_open, \* whether reset() ran after that transition
    ho_successes,     \* successes recorded since the cell last became HALF_OPEN
    probe,            \* callers admitted in the current HALF_OPEN period
    \* the registry and the proxy route (Spec)
    services,         \* ServiceRegistry.services: name -> list of ServiceInstance
    disc_index,       \* ServiceDiscovery.round_robin_index: name -> int
    health,           \* the health sweep: the instance whose GET is in flight
    req_pc,           \* where each inbound request is
    req,              \* per request in flight: its path and the instance chosen
    last_done,        \* the request answered last: path, upstream outcome, response
    run_5xx,          \* history: consecutive forwarded requests answered 5xx
    last_5xx_at,      \* history: clock reading when the last of them completed
    \* the load balancer (SpecBalancer)
    round_robin_index,\* LoadBalancer.round_robin_index: name -> int
    connection_counts,\* LoadBalancer.connection_counts: instance id -> int
    task_pc,          \* where each task running retry_request is
    task,             \* its locals: attempt, instance, last_error, client_ip
    \* the rate limiter (SpecLimiter)
    limiter,          \* RateLimiter: its four dicts, identifier -> bucket/window
    calls,            \* history: per identifier the is_allowed calls and verdicts
    \* history of the rotation, kept for the properties only
    rotation,         \* the instance recorded UNHEALTHY last, and what followed
    \* history of the registry calls, kept for the properties only
    returned,         \* the registry call made last and what it returned
    \* the asyncio.Lock objects
    held              \* per task: the locks it holds where it is suspended

cellVars == <<call_pc, last_op, opened_at, opened_from,
              reset_since_open, ho_successes, probe>>
breakerVars == <<breakers, cellVars>>
registryVars == <<services, health>>
pipeVars == <<disc_index, req_pc, req, last_done, run_5xx, last_5xx_at>>
balancerVars == <<round_robin_index, connection_counts, task_pc, task>>
limiterVars == <<limiter, calls>>
vars == <<now, settings, breakerVars, registryVars, pipeVars, balancerVars,
          limiterVars, rotation, returned, held>>

\* Service names are the character sequences _parse_path cuts out of a path.
AUTH == <<"a", "u", "t", "h">>

Callers == 1..NumCallers
Requests == 1..NumRequests
Tasks == 1..NumTasks

\* A dict with no key.
EmptyMap == [n \in {} |-> 0]
\* Python's None where an instance, a service name or a response is expected.
None == <<>>
\* No health-check GET in flight.
NoHealth == [service |-> None, id |-> None]
\* History of the rotation: no instance has been recorded UNHEALTHY yet.
NoRotation == [id |-> None, phase |-> "none"]
\* The same history in the specifications that do not keep it.
RotationOff == [id |-> None, phase |-> "off"]
\* History of the registry calls: none made yet.
NoReturn == [op |-> "none", name |-> None, id |-> None, value |-> FALSE, seq |-> 0]
\* The same history in the specifications that do not keep it.
ReturnedOff == [op |-> "off", name |-> None, id |-> None, value |-> FALSE, seq |-> 0]
\* A request that is not in flight.
NewRequest == [path |-> None, instance |-> None]
\* The locals of retry_request before its first attempt.
NewTask ==
    [attempt |-> 0, instance |-> None, last_error |-> FALSE, client_ip |-> "",
     path |-> None]
\* The record of an answered request.
Done(r, path, outcome, resp) ==
    [path |-> path, outcome |-> outcome, resp |-> resp]

\* ------------------------------------------------------ circuit breaker

\* CircuitBreakerConfig as CircuitBreaker.__init__ builds it from settings.
BreakerConfig(s) ==
    [failure_threshold   |-> s.CIRCUIT_BREAKER_FAILURE_THRESHOLD,
     success_threshold   |-> s.CIRCUIT_BREAKER_SUCCESS_THRESHOLD,
     timeout             |-> s.CIRCUIT_BREAKER_TIMEOUT,
     half_open_max_calls |-> s.CIRCUIT_BREAKER_HALF_OPEN_MAX_CALLS]

\* CircuitBreakerStats(): every counter 0, every timestamp None.
NewStats ==
    [total_calls |-> 0, success_calls |-> 0, failure_calls |-> 0,
     consecutive_failures |-> 0, consecutive_successes |-> 0,
     last_failure_time |-> NoTime, last_success_time |-> NoTime,
     last_state_change |-> NoTime]

\* CircuitBreaker.__init__
NewBreaker(s) ==
    [config |-> BreakerConfig(s), state |-> "closed", stats |-> NewStats,
     half_open_calls |-> 0, enabled |-> s.CIRCUIT_BREAKER_ENABLED]

\* A mutant of _should_attempt_reset: the timeout is not waited for.
ShouldAttemptReset_NoWait(b, t) ==
    b.stats.last_failure_time # NoTime

\* CircuitBreaker._should_attempt_reset at clock reading t
ShouldAttemptReset(b, t) ==
    IF b.stats.last_failure_time = NoTime
    THEN FALSE
    ELSE t - b.stats.last_failure_time >= b.config.timeout

\* CircuitBreaker._transition_to_open
TransitionToOpen(b, t) ==
    [b EXCEPT !.state = "open", !.stats.last_state_change = t,
              !.half_open_calls = 0]

\* A mutant of _transition_to_half_open: the success counter is kept.
TransitionToHalfOpen_KeepSuccesses(b, t) ==
    [b EXCEPT !.state = "half_open", !.stats.last_state_change = t,
              !.half_open_calls = 0]

\* CircuitBreaker._transition_to_half_open
TransitionToHalfOpen(b, t) ==
    [b EXCEPT !.state = "half_open", !.stats.last_state_change = t,
              !.half_open_calls = 0, !.stats.consecutive_successes = 0]

\* CircuitBreaker._transition_to_closed
TransitionToClosed(b, t) ==
    [b EXCEPT !.state = "closed", !.stats.last_state_change = t,
              !.half_open_calls = 0, !.stats.consecutive_failures = 0]

\* As CanExecute, but a rejected call is counted in total_calls.
CanExecute_CountsRejection(b, t) ==
    CASE b.state = "closed" -> [ok |-> TRUE, cell |-> b]
      [] b.state = "open" ->
            IF ShouldAttemptReset(b, t)
            THEN [ok |-> TRUE, cell |-> TransitionToHalfOpen(b, t)]
            ELSE [ok |-> FALSE, cell |-> [b EXCEPT !.stats.total_calls = @ + 1]]
      [] b.state = "half_open" ->
            IF b.half_open_calls < b.config.half_open_max_calls
            THEN [ok |-> TRUE, cell |-> b]
            ELSE [ok |-> FALSE, cell |-> [b EXCEPT !.stats.total_calls = @ + 1]]
      [] OTHER -> [ok |-> FALSE, cell |-> b]

\* CircuitBreaker._can_execute: the answer and the cell it leaves.
CanExecute(b, t) ==
    CASE b.state = "closed" -> [ok |-> TRUE, cell |-> b]
      [] b.state = "open" ->
            IF ShouldAttemptReset(b, t)
            THEN [ok |-> TRUE, cell |-> TransitionToHalfOpen(b, t)]
            ELSE [ok |-> FALSE, cell |-> b]
      [] b.state = "half_open" ->
            [ok |-> b.half_open_calls < b.config.half_open_max_calls, cell |-> b]
      [] OTHER -> [ok |-> FALSE, cell |-> b]

\* A mutant of _on_success: the failure counter is not cleared.
OnSuccess_KeepFailures(b, t) ==
    LET c == [b EXCEPT !.stats.total_calls = @ + 1,
                       !.stats.success_calls = @ + 1,
                       !.stats.consecutive_successes = @ + 1,
                       !.stats.last_success_time = t]
    IN  IF c.state = "half_open"
        THEN LET d == [c EXCEPT !.half_open_calls = @ + 1]
             IN  IF d.stats.consecutive_successes >= d.config.success_threshold
                 THEN TransitionToClosed(d, t)
                 ELSE d
        ELSE c

\* As OnSuccess, but a success recorded while the cell is OPEN is treated as
\* a probe's success as well.
OnSuccess_AlsoWhenOpen(b, t) ==
    LET c == [b EXCEPT !.stats.total_calls = @ + 1,
                       !.stats.success_calls = @ + 1,
                       !.stats.consecutive_successes = @ + 1,
                       !.stats.consecutive_failures = 0,
                       !.stats.last_success_time = t]
    IN  IF c.state \in {"half_open", "open"}
        THEN LET d == [c EXCEPT !.half_open_calls = @ + 1]
             IN  IF d.stats.consecutive_successes >= d.config.success_threshold
                 THEN TransitionToClosed(d, t)
                 ELSE d
        ELSE c

\* CircuitBreaker._on_success
OnSuccess(b, t) ==
    LET c == [b EXCEPT !.stats.total_calls = @ + 1,
                       !.stats.success_calls = @ + 1,
                       !.stats.consecutive_successes = @ + 1,
                       !.stats.consecutive_failures = 0,
                       !.stats.last_success_time = t]
    IN  IF c.state = "half_open"
        THEN LET d == [c EXCEPT !.half_open_calls = @ + 1]
             IN  IF d.stats.consecutive_successes >= d.config.success_threshold
                 THEN TransitionToClosed(d, t)
                 ELSE d
        ELSE c

\* A mutant of _on_failure: the success counter is not cleared.
OnFailure_KeepSuccesses(b, t) ==
    LET c == [b EXCEPT !.stats.total_calls = @ + 1,
                       !.stats.failure_calls = @ + 1,
                       !.stats.consecutive_failures = @ + 1,
                       !.stats.last_failure_time = t]
    IN  CASE c.state = "closed" ->
                IF c.stats.consecutive_failures >= c.config.failure_threshold
                THEN TransitionToOpen(c, t)
                ELSE c
          [] c.state = "half_open" -> TransitionToOpen(c, t)
          [] OTHER -> c

\* A mutant of _on_failure: the HALF_OPEN branch is missing.
OnFailure_NoHalfOpenBranch(b, t) ==
    LET c == [b EXCEPT !.stats.total_calls = @ + 1,
                       !.stats.failure_calls = @ + 1,
                       !.stats.consecutive_failures = @ + 1,
                       !.stats.consecutive_successes = 0,
                       !.stats.last_failure_time = t]
    IN  IF c.state = "closed"
           /\ c.stats.consecutive_failures >= c.config.failure_threshold
        THEN TransitionToOpen(c, t)
        ELSE c

\* CircuitBreaker._on_failure
OnFailure(b, t) ==
    LET c == [b EXCEPT !.stats.total_calls = @ + 1,
                       !.stats.failure_calls = @ + 1,
                       !.stats.consecutive_failures = @ + 1,
                       !.stats.consecutive_successes = 0,
                       !.stats.last_failure_time = t]
    IN  CASE c.state = "closed" ->
                IF c.stats.consecutive_failures >= c.config.failure_threshold
                THEN TransitionToOpen(c, t)
                ELSE c
          [] c.state = "half_open" -> TransitionToOpen(c, t)
          [] OTHER -> c

\* CircuitBreaker.reset
ResetCell(b) ==
    [b EXCEPT !.state = "closed", !.stats = NewStats, !.half_open_calls = 0]

\* CircuitBreakerManager.get_breaker: the map after the lookup-or-create.
GetBreaker(map, name, s) ==
    IF name \in DOMAIN map
    THEN map
    ELSE [n \in DOMAIN map \cup {name} |->
             IF n = name THEN NewBreaker(s) ELSE map[n]]

\* ------------------------------------------------------ service registry

\* register_service: the ServiceInstance it builds at clock reading t.
NewInstance(name, url, health_check, weight, t) ==
    [id |-> <<name, url, t>>, name |-> name, url |-> url,
     health_check |-> health_check, weight |-> weight, enabled |-> TRUE,
     status |-> "unknown", last_health_check |-> NoTime,
     consecutive_failures |-> 0, consecutive_successes |-> 0,
     metadata |-> EmptyMap]

\* ServiceRegistry.register_service: the services map afterwards.
RegisterService(map, name, url, health_check, weight, t) ==
    LET inst == NewInstance(name, url, health_check, weight, t)
        old == IF name \in DOMAIN map THEN map[name] ELSE <<>>
    IN  [n \in DOMAIN map \cup {name} |->
            IF n = name THEN Append(old, inst) ELSE map[n]]

\* The index of the first instance of the service with that id, 0 if none:
\* the match of the `for instance in instances` loops.
FirstWithId(map, name, id) ==
    IF name \notin DOMAIN map THEN 0
    ELSE LET hits == {i \in 1..Len(map[name]) : map[name][i].id = id}
         IN  IF hits = {} THEN 0
             ELSE CHOOSE k \in hits : \A j \in hits : k <= j

RECURSIVE SumLen(_, _)
\* sum(len(instances) for instances in services.values())
SumLen(map, names) ==
    IF names = {} THEN 0
    ELSE LET n == CHOOSE x \in names : TRUE
         IN  Len(map[n]) + SumLen(map, names \ {n})

\* register_service: the id of the instance it returns.
RegisterReturns(name, url, t) == <<name, url, t>>

\* instances.pop(i)
Pop(instances, i) ==
    [k \in 1..(Len(instances) - 1) |->
        IF k < i THEN instances[k] ELSE instances[k + 1]]

\* As UnregisterService, without the removal of an emptied entry.
UnregisterService_KeepEntry(map, name, id) ==
    LET i == FirstWithId(map, name, id)
    IN  IF i = 0 THEN map
        ELSE [map EXCEPT ![name] = Pop(map[name], i)]

\* ServiceRegistry.unregister_service: the services map afterwards.  The
\* first instance with that id is popped, and the entry of the service is
\* deleted when the list is empty then.
UnregisterService(map, name, id) ==
    LET i == FirstWithId(map, name, id)
    IN  IF i = 0 THEN map
        ELSE IF Len(map[name]) = 1
             THEN [n \in DOMAIN map \ {name} |-> map[n]]
             ELSE [map EXCEPT ![name] = Pop(map[name], i)]

\* unregister_service: what it returns.
UnregisterReturns(map, name, id) == FirstWithId(map, name, id) # 0

\* update_service_status: what it returns.
UpdateServiceStatusReturns(map, name, id) == FirstWithId(map, name, id) # 0

\* As UpdateServiceStatus, but an id that is not found falls back on the
\* first instance of the service.
UpdateServiceStatus_FirstOnMiss(map, name, id, status, t) ==
    IF name \notin DOMAIN map THEN map
    ELSE LET i == IF FirstWithId(map, name, id) = 0 THEN 1
                  ELSE FirstWithId(map, name, id)
             inst == map[name][i]
         IN  [map EXCEPT ![name][i] =
                [inst EXCEPT !.status = status, !.last_health_check = t]]

\* ServiceRegistry.get_service: the enabled instances of a service.
GetService(map, name) ==
    LET instances == IF name \in DOMAIN map THEN map[name] ELSE <<>>
    IN  SelectSeq(instances, LAMBDA inst : inst.enabled)

\* As UpdateServiceStatus, but the counter of the other kind is kept.
UpdateServiceStatus_KeepsOther(map, name, id, status, t) ==
    LET i == FirstWithId(map, name, id)
    IN  IF i = 0 THEN map
        ELSE IF status = "healthy"
             THEN [map EXCEPT ![name][i].status = status,
                              ![name][i].last_health_check = t,
                              ![name][i].consecutive_successes = @ + 1]
             ELSE [map EXCEPT ![name][i].status = status,
                              ![name][i].last_health_check = t,
                              ![name][i].consecutive_failures = @ + 1]

\* ServiceRegistry.update_service_status: the first instance with that id
\* gets the status, the time stamp and the counters.
UpdateServiceStatus(map, name, id, status, t) ==
    IF name \notin DOMAIN map THEN map
    ELSE LET hits == {i \in 1..Len(map[name]) : map[name][i].id = id}
         IN  IF hits = {} THEN map
             ELSE LET i == CHOOSE k \in hits : \A j \in hits : k <= j
                      inst == map[name][i]
                      upd == IF status = "healthy"
                             THEN [inst EXCEPT
                                     !.status = status,
                                     !.last_health_check = t,
                                     !.consecutive_failures = 0,
                                     !.consecutive_successes = @ + 1]
                             ELSE [inst EXCEPT
                                     !.status = status,
                                     !.last_health_check = t,
                                     !.consecutive_failures = @ + 1,
                                     !.consecutive_successes = 0]
                  IN  [map EXCEPT ![name][i] = upd]

\* ServiceRegistry.disable_service
DisableService(map, name, id) ==
    LET i == FirstWithId(map, name, id)
    IN  IF i = 0 THEN map
        ELSE [map EXCEPT ![name][i].enabled = FALSE,
                         ![name][i].status = "disabled"]

\* As EnableService, but the instance comes back as HEALTHY.
EnableService_AsHealthy(map, name, id) ==
    LET i == FirstWithId(map, name, id)
    IN  IF i = 0 THEN map
        ELSE [map EXCEPT ![name][i].enabled = TRUE,
                         ![name][i].status = "healthy"]

\* ServiceRegistry.enable_service
EnableService(map, name, id) ==
    LET i == FirstWithId(map, name, id)
    IN  IF i = 0 THEN map
        ELSE [map EXCEPT ![name][i].enabled = TRUE,
                         ![name][i].status = "unknown"]

\* ServiceStatus
Statuses == {"healthy", "unhealthy", "disabled", "unknown"}

\* What an outbound HTTP call can end in: a response with a status code, a
\* connection error, a timeout (both httpx.HTTPError).
Outcomes ==
    [kind : {"response"}, status : {200, 302, 404, 500}]
    \cup [kind : {"connect_error", "timeout"}, status : {0}]

\* _perform_health_checks: the status it records for the outcome of the GET.
HealthStatus(outcome) ==
    IF outcome.kind = "response" /\ outcome.status = 200
    THEN "healthy" ELSE "unhealthy"

\* ---------------------------------------------------- service discovery

\* As HealthyInstances, without the test of `enabled`.
HealthyInstances_IgnoreEnabled(instances) ==
    SelectSeq(instances, LAMBDA inst : inst.status = "healthy")

\* The instances discovery (and the balancer) may choose from.
HealthyInstances(instances) ==
    SelectSeq(instances, LAMBDA inst : inst.status = "healthy" /\ inst.enabled)

\* dict.get(key, 0)
GetOr0(map, key) == IF key \in DOMAIN map THEN map[key] ELSE 0

\* dict[key] = value
Put(map, key, value) ==
    [k \in DOMAIN map \cup {key} |-> IF k = key THEN value ELSE map[k]]

RECURSIVE SumWeights(_, _)
\* sum(inst.weight for inst in instances[:n])
SumWeights(instances, n) ==
    IF n = 0 THEN 0 ELSE SumWeights(instances, n - 1) + instances[n].weight

\* _weighted_select / _weighted for the draw rand of random.uniform(0, total).
WeightedPick(instances, rand) ==
    LET hits == {i \in 1..Len(instances) : rand <= SumWeights(instances, i)}
    IN  IF SumWeights(instances, Len(instances)) = 0 THEN instances[1]
        ELSE IF hits = {} THEN instances[Len(instances)]
        ELSE instances[CHOOSE i \in hits : \A j \in hits : i <= j]

\* min over (instance, count) pairs by count: the first instance with the
\* least count; counts[i] is the count of instances[i].
FirstMin(instances, counts) ==
    LET best == {i \in 1..Len(instances) :
                    \A j \in 1..Len(instances) : counts[i] <= counts[j]}
    IN  instances[CHOOSE i \in best : \A j \in best : i <= j]

\* As DiscoverySelect, but round-robin stores the index it used.
DiscoverySelect_NoAdvance(instances, name, strategy, index) ==
    LET i == GetOr0(index, name) % Len(instances)
    IN  {[instance |-> instances[i + 1], index |-> Put(index, name, i)]}

\* ServiceDiscovery._select_instance on a non-empty list: every
\* (instance, round_robin_index) the strategy can produce.
DiscoverySelect(instances, name, strategy, index) ==
    CASE strategy = "round_robin" ->
            LET i == GetOr0(index, name) % Len(instances)
            IN  {[instance |-> instances[i + 1], index |-> Put(index, name, i + 1)]}
      [] strategy = "random" ->
            {[instance |-> instances[i], index |-> index] :
                i \in 1..Len(instances)}
      [] strategy = "least_connections" ->
            {[instance |->
                 FirstMin(instances,
                          [i \in 1..Len(instances) |->
                              GetOr0(instances[i].metadata, "active_connections")]),
              index |-> index]}
      [] strategy = "weighted" ->
            {[instance |-> WeightedPick(instances, rand), index |-> index] :
                rand \in 0..SumWeights(instances, Len(instances))}
      [] OTHER -> {[instance |-> instances[1], index |-> index]}

\* ServiceDiscovery.discover_service: every (instance or None,
\* round_robin_index) it can return.
DiscoverService(map, name, strategy, index) ==
    LET healthy == HealthyInstances(GetService(map, name))
    IN  IF healthy = <<>>
        THEN {[instance |-> None, index |-> index]}
        ELSE DiscoverySelect(healthy, name, strategy, index)

\* ------------------------------------------------------- request router

RECURSIVE LStrip(_, _)
\* str.lstrip(ch)
LStrip(str, ch) ==
    IF str # <<>> /\ Head(str) = ch THEN LStrip(Tail(str), ch) ELSE str

RECURSIVE RStrip(_, _)
\* str.rstrip(ch)
RStrip(str, ch) ==
    IF str # <<>> /\ str[Len(str)] = ch
    THEN RStrip(SubSeq(str, 1, Len(str) - 1), ch) ELSE str

\* str.startswith(prefix)
StartsWith(str, prefix) ==
    Len(str) >= Len(prefix) /\ SubSeq(str, 1, Len(prefix)) = prefix

\* str.split(ch, 1): the part before the first ch and the part after it.
Split1(str, ch) ==
    LET at == {i \in 1..Len(str) : str[i] = ch}
    IN  IF at = {} THEN <<str>>
        ELSE LET i == CHOOSE k \in at : \A j \in at : k <= j
             IN  <<SubSeq(str, 1, i - 1), SubSeq(str, i + 1, Len(str))>>

\* RequestRouter._parse_path with gateway_prefix = GATEWAY_PREFIX.rstrip('/')
ParsePath(path, s) ==
    LET prefix == RStrip(s.GATEWAY_PREFIX, "/")
        rel == IF StartsWith(path, prefix)
               THEN LStrip(SubSeq(path, Len(prefix) + 1, Len(path)), "/")
               ELSE path
        parts == Split1(rel, "/")
    IN  IF parts[1] = <<>>
        THEN [service |-> None, path |-> <<>>]
        ELSE [service |-> parts[1],
              path |-> IF Len(parts) > 1 THEN parts[2] ELSE <<>>]

\* A response as the client sees it: status, the JSON body's "error" and
\* whether the body carries request_id; header_id is X-Request-ID.
Resp(status, error, body_id) ==
    [status |-> status, error |-> error, body_id |-> body_id, header_id |-> FALSE]

\* RequestRouter._forward_request: the Response built from the outcome of
\* the upstream call; every exception ends in a 502 Response.
ForwardResponse(outcome) ==
    CASE outcome.kind = "response" -> Resp(outcome.status, "", FALSE)
      [] outcome.kind \in {"connect_error", "timeout"} ->
            Resp(502, "Service error", FALSE)
      [] OTHER -> Resp(502, "Failed to forward request", FALSE)

\* RequestRouter.route_request up to its first suspension: either a Response
\* (instance None) or the instance the request is forwarded to.
RouteRequest(path, s, map, index) ==
    LET parsed == ParsePath(path, s)
    IN  IF parsed.service = None
        THEN {[resp |-> Resp(400, "Invalid path", FALSE),
               instance |-> None, index |-> index]}
        ELSE {[resp |-> IF d.instance = None
                        THEN Resp(503, "Service not available", FALSE)
                        ELSE None,
               instance |-> d.instance, index |-> d.index] :
                 d \in DiscoverService(map, parsed.service,
                                       s.LOAD_BALANCER_STRATEGY, index)}

\* -------------------------------------------------------- load balancer

\* LoadBalancingStrategy
Strategies == {"round_robin", "random", "least_connections", "weighted", "ip_hash"}

\* The client addresses tried; "" stands for no address (None).
ClientIps == {"", "10.0.0.1", "10.0.0.4"}

\* int(hashlib.md5(ip.encode()).hexdigest(), 16) reduced modulo 12, which
\* keeps its remainder by every list length up to 4.
Md5Mod12(ip) ==
    CASE ip = "10.0.0.1" -> 0
      [] ip = "10.0.0.4" -> 11

\* LoadBalancer._select_by_strategy on a non-empty list: every
\* (instance, round_robin_index) the strategy can produce.
SelectByStrategy(instances, name, client_ip, strategy, index, counts) ==
    CASE strategy = "round_robin" ->
            LET i == GetOr0(index, name) % Len(instances)
            IN  {[instance |-> instances[i + 1], index |-> Put(index, name, i + 1)]}
      [] strategy = "random" ->
            {[instance |-> instances[i], index |-> index] :
                i \in 1..Len(instances)}
      [] strategy = "least_connections" ->
            {[instance |->
                 FirstMin(instances,
                          [i \in 1..Len(instances) |->
                              GetOr0(counts, instances[i].id)]),
              index |-> index]}
      [] strategy = "weighted" ->
            {[instance |-> WeightedPick(instances, rand), index |-> index] :
                rand \in 0..SumWeights(instances, Len(instances))}
      [] strategy = "ip_hash" ->
            {[instance |-> IF client_ip = "" THEN instances[1]
                           ELSE instances[(Md5Mod12(client_ip) % Len(instances)) + 1],
              index |-> index]}
      [] OTHER -> {[instance |-> instances[1], index |-> index]}

\* LoadBalancer._increment_connection
IncrementConnection(counts, id) == Put(counts, id, GetOr0(counts, id) + 1)

\* LoadBalancer._decrement_connection: the entry is deleted at zero.
DecrementConnection(counts, id) ==
    IF id \notin DOMAIN counts THEN counts
    ELSE IF counts[id] - 1 <= 0
         THEN [k \in DOMAIN counts \ {id} |-> counts[k]]
         ELSE [counts EXCEPT ![id] = @ - 1]

\* LoadBalancer.release_instance
ReleaseInstance(counts, id) == DecrementConnection(counts, id)

\* LoadBalancer.select_instance: every (instance or None,
\* round_robin_index, connection_counts) it can end with.
SelectInstance(instances, name, client_ip, strategy, index, counts) ==
    LET healthy == HealthyInstances(instances)
    IN  IF healthy = <<>>
        THEN {[instance |-> None, index |-> index, counts |-> counts]}
        ELSE {[instance |-> c.instance, index |-> c.index,
               counts |-> IncrementConnection(counts, c.instance.id)] :
                 c \in SelectByStrategy(healthy, name, client_ip, strategy,
                                        index, counts)}

\* --------------------------------------------------------- rate limiter

\* RateLimitStrategy
LimitStrategies == {"token_bucket", "leaky_bucket", "fixed_window", "sliding_window"}

\* The window of FixedWindow and SlidingWindow as RateLimiter creates them.
WINDOW_SECONDS == 60

\* Clock readings are whole seconds.  A token bucket's rate is
\* requests_per_minute / 60.0 tokens per second; its token count is kept
\* here in sixtieths of a token (tokens60), so that elapsed * rate is the
\* integer elapsed * requests_per_minute.

\* TokenBucket.__init__ as _get_token_bucket calls it at clock reading t.
NewTokenBucket(rpm, burst, t) ==
    [rpm |-> rpm, capacity |-> burst, tokens60 |-> burst * 60, last_update |-> t]

\* As TokenRefill, without the clamp to capacity.
TokenRefill_NoClamp(b, t) ==
    [b EXCEPT !.tokens60 = b.tokens60 + (t - b.last_update) * b.rpm,
              !.last_update = t]

\* TokenBucket.consume, lines 35-42: the refill.
TokenRefill(b, t) ==
    LET filled == b.tokens60 + (t - b.last_update) * b.rpm
    IN  [b EXCEPT !.tokens60 = IF b.capacity * 60 <= filled
                                THEN b.capacity * 60 ELSE filled,
                  !.last_update = t]

\* TokenBucket.consume, lines 44-48, on the refilled bucket.
TokenTake(b, n) ==
    IF b.tokens60 >= n * 60
    THEN [ok |-> TRUE, state |-> [b EXCEPT !.tokens60 = @ - n * 60]]
    ELSE [ok |-> FALSE, state |-> b]

\* LeakyBucket.__init__
NewLeakyBucket(rpm, burst, t) ==
    [rpm |-> rpm, capacity |-> burst, queue |-> <<>>, last_leak |-> t]

\* LeakyBucket.consume, lines 68-75: int(elapsed * rate) entries leak.
LeakyLeak(b, t) ==
    LET leaked == ((t - b.last_leak) * b.rpm) \div 60
        n == IF leaked < Len(b.queue) THEN leaked ELSE Len(b.queue)
    IN  [b EXCEPT !.queue = SubSeq(b.queue, n + 1, Len(b.queue)),
                  !.last_leak = t]

\* n copies of the clock reading t.
Stamps(n, t) == [i \in 1..n |-> t]

\* LeakyBucket.consume, lines 77-82, at clock reading t.
LeakyTake(b, n, t) ==
    IF Len(b.queue) + n <= b.capacity
    THEN [ok |-> TRUE, state |-> [b EXCEPT !.queue = @ \o Stamps(n, t)]]
    ELSE [ok |-> FALSE, state |-> b]

\* FixedWindow.__init__
NewFixedWindow(requests, t) ==
    [requests |-> requests, window_seconds |-> WINDOW_SECONDS,
     count |-> 0, window_start |-> t]

\* As FixedRoll, but the window lasts one second longer.
FixedRoll_Late(w, t) ==
    IF t - w.window_start > w.window_seconds
    THEN [w EXCEPT !.count = 0, !.window_start = t]
    ELSE w

\* FixedWindow.consume, lines 102-106: a new window starts.
FixedRoll(w, t) ==
    IF t - w.window_start >= w.window_seconds
    THEN [w EXCEPT !.count = 0, !.window_start = t]
    ELSE w

\* FixedWindow.consume, lines 108-112.
FixedTake(w, n) ==
    IF w.count + n <= w.requests
    THEN [ok |-> TRUE, state |-> [w EXCEPT !.count = @ + n]]
    ELSE [ok |-> FALSE, state |-> w]

\* SlidingWindow.__init__
NewSlidingWindow(requests) ==
    [requests |-> requests, window_seconds |-> WINDOW_SECONDS,
     timestamps |-> <<>>]

RECURSIVE DropOld_OneSecondEarly(_, _, _)
\* As DropOld, dropping a time stamp one second before it is `window` old.
DropOld_OneSecondEarly(stamps, t, window) ==
    IF stamps # <<>> /\ t - Head(stamps) >= window - 1
    THEN DropOld_OneSecondEarly(Tail(stamps), t, window)
    ELSE stamps

RECURSIVE DropOld(_, _, _)
\* SlidingWindow.consume, lines 133-134: popleft while the oldest time
\* stamp is at least window_seconds old.
DropOld(stamps, t, window) ==
    IF stamps # <<>> /\ t - Head(stamps) >= window
    THEN DropOld(Tail(stamps), t, window)
    ELSE stamps

\* SlidingWindow.consume, lines 131-134.
SlidingEvict(w, t) ==
    [w EXCEPT !.timestamps = DropOld(w.timestamps, t, w.window_seconds)]

\* SlidingWindow.consume, lines 136-141.
SlidingTake(w, n, t) ==
    IF Len(w.timestamps) + n <= w.requests
    THEN [ok |-> TRUE, state |-> [w EXCEPT !.timestamps = @ \o Stamps(n, t)]]
    ELSE [ok |-> FALSE, state |-> w]

\* As GetKey, with one key for every identifier.
GetKey_Shared(identifier) == "shared"

\* RateLimiter._get_key
GetKey(identifier) == identifier

\* The dict RateLimiter uses under a strategy.
DictOf(strategy) ==
    CASE strategy = "token_bucket" -> "buckets"
      [] strategy = "leaky_bucket" -> "leaky_buckets"
      [] strategy = "fixed_window" -> "fixed_windows"
      [] strategy = "sliding_window" -> "sliding_windows"

\* As GetOrCreate, but a bucket is made for every call, also when the key
\* has one.
GetOrCreate_AlwaysNew(lim, s, key, t) ==
    LET strategy == s.RATE_LIMIT_STRATEGY
        rpm == s.RATE_LIMIT_REQUESTS_PER_MINUTE
        burst == s.RATE_LIMIT_BURST_SIZE
    IN  CASE strategy = "token_bucket" -> NewTokenBucket(rpm, burst, t)
          [] strategy = "leaky_bucket" -> NewLeakyBucket(rpm, burst, t)
          [] strategy = "fixed_window" -> NewFixedWindow(rpm, t)
          [] strategy = "sliding_window" -> NewSlidingWindow(rpm)

\* _get_token_bucket, _get_leaky_bucket, _get_fixed_window,
\* _get_sliding_window: the bucket or window of the key, created at clock
\* reading t when the key is new.
GetOrCreate(lim, s, key, t) ==
    LET strategy == s.RATE_LIMIT_STRATEGY
        dict == lim[DictOf(strategy)]
        rpm == s.RATE_LIMIT_REQUESTS_PER_MINUTE
        burst == s.RATE_LIMIT_BURST_SIZE
    IN  IF key \in DOMAIN dict THEN dict[key]
        ELSE CASE strategy = "token_bucket" -> NewTokenBucket(rpm, burst, t)
               [] strategy = "leaky_bucket" -> NewLeakyBucket(rpm, burst, t)
               [] strategy = "fixed_window" -> NewFixedWindow(rpm, t)
               [] strategy = "sliding_window" -> NewSlidingWindow(rpm)

\* consume up to its test of `tokens`: refill, leak, window roll, eviction.
Prepare(strategy, b, t) ==
    CASE strategy = "token_bucket" -> TokenRefill(b, t)
      [] strategy = "leaky_bucket" -> LeakyLeak(b, t)
      [] strategy = "fixed_window" -> FixedRoll(b, t)
      [] strategy = "sliding_window" -> SlidingEvict(b, t)

\* The test of `tokens` and what follows it, on the prepared bucket.
Take(strategy, b, n, t) ==
    CASE strategy = "token_bucket" -> TokenTake(b, n)
      [] strategy = "leaky_bucket" -> LeakyTake(b, n, t)
      [] strategy = "fixed_window" -> FixedTake(b, n)
      [] strategy = "sliding_window" -> SlidingTake(b, n, t)

\* The faults tried inside is_allowed: none; "key", an unhashable
\* identifier, for which the dict lookup raises TypeError; "tokens", a
\* `tokens` that is not a number, for which consume raises TypeError at
\* its comparison, after the bucket was looked up or created and prepared.
Faults == {"none", "key", "tokens"}

\* As IsAllowed, with the exception of a fault propagating as a rejection.
IsAllowed_FailClosed(lim, s, identifier, n, fault, t) ==
    IF ~s.RATE_LIMIT_ENABLED THEN [allowed |-> TRUE, limiter |-> lim]
    ELSE IF fault = "key" THEN [allowed |-> FALSE, limiter |-> lim]
    ELSE LET strategy == s.RATE_LIMIT_STRATEGY
             key == GetKey(identifier)
             b == Prepare(strategy, GetOrCreate(lim, s, key, t), t)
             res == IF fault = "tokens" THEN [ok |-> FALSE, state |-> b]
                    ELSE Take(strategy, b, n, t)
         IN  [allowed |-> res.ok,
              limiter |-> [lim EXCEPT ![DictOf(strategy)] = Put(@, key, res.state)]]

\* RateLimiter.is_allowed at clock reading t: the verdict and the limiter
\* afterwards.  Every exception raised inside the try ends in True.
IsAllowed(lim, s, identifier, n, fault, t) ==
    IF ~s.RATE_LIMIT_ENABLED THEN [allowed |-> TRUE, limiter |-> lim]
    ELSE IF fault = "key" THEN [allowed |-> TRUE, limiter |-> lim]
    ELSE LET strategy == s.RATE_LIMIT_STRATEGY
             key == GetKey(identifier)
             b == Prepare(strategy, GetOrCreate(lim, s, key, t), t)
             res == IF fault = "tokens" THEN [ok |-> TRUE, state |-> b]
                    ELSE Take(strategy, b, n, t)
         IN  [allowed |-> res.ok,
              limiter |-> [lim EXCEPT ![DictOf(strategy)] = Put(@, key, res.state)]]

\* ---------------------------------------------------------------- locks

\* The tasks that take locks: the health sweep, inbound requests, direct
\* callers of a breaker cell and retry_request tasks.
Sweep == <<"sweep", 0>>
LockHolders ==
    {Sweep} \cup ({"request"} \X Requests) \cup ({"caller"} \X Callers)
            \cup ({"task"} \X Tasks)
\* No task holds a lock.
NoLocks == [w \in LockHolders |-> {}]

\* asyncio.Lock.acquire and release as steps of a task; "cell" is the lock
\* of the service's breaker cell, "bucket" that of the client's bucket.
Acquire(lock) == [op |-> "acquire", lock |-> lock]
Release(lock) == [op |-> "release", lock |-> lock]
\* `async with lock:` around a body that does not suspend on another task
With(lock) == <<Acquire(lock), Release(lock)>>

\* The locks a task holds after running ops, holding mine before.
RECURSIVE RunLocks(_, _)
RunLocks(mine, ops) ==
    IF ops = <<>> THEN mine
    ELSE RunLocks(IF Head(ops).op = "acquire"
                  THEN mine \cup {Head(ops).lock}
                  ELSE mine \ {Head(ops).lock},
                  Tail(ops))
\* asyncio.Lock is not reentrant: acquire proceeds only when no task, the
\* acquiring one included, holds the lock.
RECURSIVE CanRun(_, _, _)
CanRun(others, mine, ops) ==
    IF ops = <<>> THEN TRUE
    ELSE /\ Head(ops).op = "acquire" => Head(ops).lock \notin (others \cup mine)
         /\ CanRun(others, RunLocks(mine, <<Head(ops)>>), Tail(ops))
\* Task who runs ops up to its next suspension.
Takes(who, ops) ==
    /\ CanRun(UNION {held[w] : w \in LockHolders \ {who}}, held[who], ops)
    /\ held' = [held EXCEPT ![who] = RunLocks(@, ops)]
\* CancelledError unwinds the task: every `async with` it is in releases.
Unwinds(who) == held' = [held EXCEPT ![who] = {}]

\* CircuitBreakerManager.get_breaker
GetBreakerLocks == With("manager")
\* As CanExecuteLocks, but the cell's lock is kept while func runs.
CanExecuteLocks_HeldAcrossCall == <<Acquire("cell")>>
\* CircuitBreaker._can_execute
CanExecuteLocks == With("cell")
\* CircuitBreaker._on_success
OnSuccessLocks == With("cell")
\* CircuitBreaker._on_failure
OnFailureLocks == With("cell")
\* TokenBucket.consume and the like, reached from RateLimiter.is_allowed
IsAllowedLocks == With("bucket")
\* ServiceRegistry.get_service
GetServiceLocks == With("registry")
\* ServiceRegistry.update_service_status
UpdateServiceStatusLocks == With("registry")
\* ServiceDiscovery.discover_service: get_service, then the selection when
\* there is a healthy instance; only _round_robin_select takes the lock.
DiscoverLocks(strategy, selected) ==
    GetServiceLocks \o
    (IF selected /\ strategy = "round_robin" THEN With("discovery") ELSE <<>>)
\* LoadBalancer.select_instance: nothing without a healthy instance, else
\* the strategy (_round_robin takes the lock) and _increment_connection.
SelectInstanceLocks(strategy, selected) ==
    IF ~selected THEN <<>>
    ELSE (IF strategy = "round_robin" THEN With("balancer") ELSE <<>>) \o
         With("balancer")
\* LoadBalancer.release_instance: _decrement_connection
ReleaseInstanceLocks == With("balancer")

\* RequestRouter.route_request: _parse_path, discover_service
RouteLocks(path, s, selected) ==
    IF ParsePath(path, s).service = None THEN <<>>
    ELSE DiscoverLocks(s.LOAD_BALANCER_STRATEGY, selected)
\* proxy_request up to the upstream call (forwarded) or to its return:
\* get_breaker and CircuitBreaker.call around route_request.
ProxyLocks(path, s, map, t, forwarded) ==
    LET service == ParsePath(path, s).service
        b == GetBreaker(map, service, s)[service]
    IN  IF ~s.CIRCUIT_BREAKER_ENABLED THEN RouteLocks(path, s, forwarded)
        ELSE IF service = None THEN <<>>
        ELSE IF ~b.enabled THEN GetBreakerLocks \o RouteLocks(path, s, forwarded)
        ELSE IF ~CanExecute(b, t).ok THEN GetBreakerLocks \o CanExecuteLocks
        ELSE GetBreakerLocks \o CanExecuteLocks \o RouteLocks(path, s, forwarded)
             \o (IF forwarded THEN <<>> ELSE OnSuccessLocks)
\* gateway_middleware and proxy_request for an arriving request.
ArrivalLocks(path, s, map, t, auth_ok, allowed, forwarded) ==
    IF s.AUTH_ENABLED /\ ~auth_ok THEN <<>>
    ELSE IF s.RATE_LIMIT_ENABLED /\ ~allowed THEN IsAllowedLocks
    ELSE (IF s.RATE_LIMIT_ENABLED THEN IsAllowedLocks ELSE <<>>) \o
         ProxyLocks(path, s, map, t, forwarded)
\* RequestRouter.route_with_retry: get_service, then retry_request's
\* select_instance.
RouteWithRetryLocks(path, s, map, selected) ==
    LET service == ParsePath(path, s).service
    IN  IF service = None THEN <<>>
        ELSE GetServiceLocks \o
             SelectInstanceLocks(s.LOAD_BALANCER_STRATEGY, selected)

\* ------------------------------------------------- SpecBreaker: one cell

\* The cell the properties observe (created lazily by the first call).
HasCell == AUTH \in DOMAIN breakers
Cell == breakers[AUTH]

\* The open-timeouts tried, in clock units.
Timeouts == {1, 2}

\* The Settings objects tried: every breaker threshold in 1..MaxThreshold.
BreakerSettings ==
    [CIRCUIT_BREAKER_ENABLED : BOOLEAN,
     CIRCUIT_BREAKER_FAILURE_THRESHOLD : 1..MaxThreshold,
     CIRCUIT_BREAKER_SUCCESS_THRESHOLD : 1..MaxThreshold,
     CIRCUIT_BREAKER_TIMEOUT : Timeouts,
     CIRCUIT_BREAKER_HALF_OPEN_MAX_CALLS : 1..MaxThreshold]

\* History bookkeeping for a step of caller r that takes the cell from b to c.
Observe(b, c, op, r) ==
    LET opens == b.state # "open" /\ c.state = "open"
        enters == b.state # "half_open" /\ c.state = "half_open"
    IN  /\ last_op' = op
        /\ opened_at' = IF opens THEN now ELSE opened_at
        /\ opened_from' = IF opens THEN b.state ELSE opened_from
        /\ reset_since_open' =
              IF opens THEN FALSE
              ELSE IF op = "reset" THEN TRUE ELSE reset_since_open
        /\ ho_successes' =
              IF enters THEN 0
              ELSE IF op = "success" /\ b.state = "half_open"
                   THEN ho_successes + 1 ELSE ho_successes
        /\ probe' =
              IF c.state # "half_open" THEN {}
              ELSE IF op \in {"admit", "half_open"} THEN
                      (IF enters THEN {} ELSE probe) \cup {r}
              ELSE probe \ {r}

\* No cell history yet, no caller of SpecBreaker started.
InitCell ==
    /\ call_pc = [r \in Callers |-> "new"]
    /\ last_op = "none"
    /\ opened_at = NoTime
    /\ opened_from = "none"
    /\ reset_since_open = FALSE
    /\ ho_successes = 0
    /\ probe = {}

\* The parts of the gateway SpecBreaker leaves alone: nothing registered,
\* no request.
IdleGateway ==
    /\ services = EmptyMap
    /\ health = NoHealth
    /\ disc_index = EmptyMap
    /\ req_pc = [r \in Requests |-> "new"]
    /\ req = [r \in Requests |-> NewRequest]
    /\ last_done = None
    /\ run_5xx = 0
    /\ last_5xx_at = NoTime

\* RateLimiter.__init__: four empty dicts; no is_allowed call yet.
NewLimiter ==
    [buckets |-> EmptyMap, leaky_buckets |-> EmptyMap,
     fixed_windows |-> EmptyMap, sliding_windows |-> EmptyMap]

IdleLimiter ==
    /\ limiter = NewLimiter
    /\ calls = EmptyMap

\* LoadBalancer.__init__, and no task has called retry_request.
IdleBalancer ==
    /\ round_robin_index = EmptyMap
    /\ connection_counts = EmptyMap
    /\ task_pc = [t \in Tasks |-> "new"]
    /\ task = [t \in Tasks |-> NewTask]

InitBreaker ==
    /\ now = 0
    /\ settings \in BreakerSettings
    /\ breakers = EmptyMap
    /\ InitCell
    /\ IdleGateway
    /\ IdleBalancer
    /\ IdleLimiter
    /\ rotation = RotationOff
    /\ returned = ReturnedOff
    /\ held = NoLocks

\* Time passes.
Tick ==
    /\ now < MaxTime
    /\ now' = now + 1
    /\ UNCHANGED <<settings, breakerVars, registryVars, pipeVars, balancerVars>>
    /\ UNCHANGED <<limiterVars, rotation, returned, held>>

\* CircuitBreaker.call up to the first suspension of the wrapped function:
\* get_breaker, the enabled test, _can_execute, and either the raise of
\* CircuitBreakerOpenError or the start of func.  Callers are numbered in
\* arrival order.
BreakerCall(r) ==
    /\ call_pc[r] = "new"
    /\ \A q \in Callers : q < r => call_pc[q] # "new"
    /\ LET map == GetBreaker(breakers, AUTH, settings)
           b == map[AUTH]
           res == IF b.enabled THEN CanExecute(b, now)
                  ELSE [ok |-> TRUE, cell |-> b]
           op == IF ~res.ok THEN "reject"
                 ELSE IF res.cell.state # b.state THEN "half_open" ELSE "admit"
       IN  /\ breakers' = [map EXCEPT ![AUTH] = res.cell]
           /\ call_pc' = [call_pc EXCEPT ![r] =
                             IF res.ok THEN "running" ELSE "rejected"]
           /\ Observe(b, res.cell, op, r)
    /\ UNCHANGED <<now, settings, registryVars, pipeVars, balancerVars>>
    /\ Takes(<<"caller", r>>,
             GetBreakerLocks \o
             (IF GetBreaker(breakers, AUTH, settings)[AUTH].enabled
              THEN CanExecuteLocks ELSE <<>>))
    /\ UNCHANGED <<limiterVars, rotation, returned>>

\* func returned: `await self._on_success()` (skipped when not enabled).
FuncReturn(r) ==
    /\ call_pc[r] = "running"
    /\ LET b == Cell
           c == IF b.enabled THEN OnSuccess(b, now) ELSE b
       IN  /\ breakers' = [breakers EXCEPT ![AUTH] = c]
           /\ Observe(b, c, "success", r)
    /\ call_pc' = [call_pc EXCEPT ![r] = "returned"]
    /\ UNCHANGED <<now, settings, registryVars, pipeVars, balancerVars>>
    /\ Takes(<<"caller", r>>, IF Cell.enabled THEN OnSuccessLocks ELSE <<>>)
    /\ UNCHANGED <<limiterVars, rotation, returned>>

\* func raised an Exception: `await self._on_failure()`, then re-raise.
FuncRaise(r) ==
    /\ call_pc[r] = "running"
    /\ LET b == Cell
           c == IF b.enabled THEN OnFailure(b, now) ELSE b
       IN  /\ breakers' = [breakers EXCEPT ![AUTH] = c]
           /\ Observe(b, c, "failure", r)
    /\ call_pc' = [call_pc EXCEPT ![r] = "raised"]
    /\ UNCHANGED <<now, settings, registryVars, pipeVars, balancerVars>>
    /\ Takes(<<"caller", r>>, IF Cell.enabled THEN OnFailureLocks ELSE <<>>)
    /\ UNCHANGED <<limiterVars, rotation, returned>>

\* The caller's task is cancelled while func is suspended: CancelledError is
\* a BaseException, so neither `except Exception` nor _on_success runs.
FuncCancelled(r) ==
    /\ call_pc[r] = "running"
    /\ call_pc' = [call_pc EXCEPT ![r] = "cancelled"]
    /\ Observe(Cell, Cell, "cancel", r)
    /\ UNCHANGED <<now, settings, breakers, registryVars, pipeVars, balancerVars>>
    /\ Unwinds(<<"caller", r>>)
    /\ UNCHANGED <<limiterVars, rotation, returned>>

\* CircuitBreaker.reset (also reached through CircuitBreakerManager.reset_all)
ResetBreaker ==
    /\ HasCell
    /\ breakers' = [breakers EXCEPT ![AUTH] = ResetCell(Cell)]
    /\ Observe(Cell, ResetCell(Cell), "reset", 0)
    /\ UNCHANGED <<now, settings, call_pc, registryVars, pipeVars, balancerVars>>
    /\ UNCHANGED <<limiterVars, rotation, returned, held>>

NextBreaker ==
    \/ Tick
    \/ \E r \in Callers : BreakerCall(r)
    \/ \E r \in Callers : FuncReturn(r)
    \/ \E r \in Callers : FuncRaise(r)
    \/ \E r \in Callers : FuncCancelled(r)
    \/ ResetBreaker

SpecBreaker == InitBreaker /\ [][NextBreaker]_vars

\* ------------------------------------------------ Spec: the proxy route

\* The paths requested: /api/auth/me, the bare prefix /api, and /auth,
\* which is not under the prefix.
PathAuthMe == <<"/", "a", "p", "i", "/", "a", "u", "t", "h", "/", "m", "e">>
PathPrefix == <<"/", "a", "p", "i">>
PathOutside == <<"/", "a", "u", "t", "h">>
Paths == {PathAuthMe, PathPrefix, PathOutside}

\* The Settings objects tried on the proxy route.
PipelineSettings ==
    [GATEWAY_PREFIX : {<<"/", "a", "p", "i">>},
     LOAD_BALANCER_STRATEGY : {"round_robin"},
     AUTH_ENABLED : {TRUE},
     RATE_LIMIT_ENABLED : {TRUE},
     CIRCUIT_BREAKER_ENABLED : BOOLEAN,
     CIRCUIT_BREAKER_FAILURE_THRESHOLD : 1..MaxThreshold,
     CIRCUIT_BREAKER_SUCCESS_THRESHOLD : {2},
     CIRCUIT_BREAKER_TIMEOUT : Timeouts,
     CIRCUIT_BREAKER_HALF_OPEN_MAX_CALLS : {3}]

\* lifespan: the auth backend of DEFAULT_BACKENDS is registered (the model
\* backend, a separate service with its own cell, is left out); nothing
\* else has happened.
Init ==
    /\ now = 0
    /\ settings \in PipelineSettings
    /\ breakers = EmptyMap
    /\ InitCell
    /\ services = RegisterService(EmptyMap, AUTH, "http://localhost:8000", "/", 1, 0)
    /\ health = NoHealth
    /\ disc_index = EmptyMap
    /\ req_pc = [r \in Requests |-> "new"]
    /\ req = [r \in Requests |-> NewRequest]
    /\ last_done = None
    /\ run_5xx = 0
    /\ last_5xx_at = NoTime
    /\ IdleBalancer
    /\ IdleLimiter
    /\ rotation = RotationOff
    /\ returned = ReturnedOff
    /\ held = NoLocks


\* History: a registry call returns; seq flips with every call recorded.
\* The call of update_service_status that the sweep makes is recorded
\* under the sweep's name.
NoteReturn(ret, op, name, id, value) ==
    IF ret.op = "off" THEN ret
    ELSE [op |-> op, name |-> name, id |-> id, value |-> value,
          seq |-> 1 - ret.seq]

\* History: update_service_status records a status for an instance.  An
\* UNHEALTHY recording evicts the instance from the rotation (phase
\* "evicted"); the first HEALTHY recording after it lets the instance back
\* in (phase "reentered").  Only the latest eviction is followed, and
\* nothing is where the history is off.
NoteRecording(rot, id, status) ==
    IF rot.phase = "off" THEN rot
    ELSE IF status = "unhealthy" THEN [id |-> id, phase |-> "evicted"]
    ELSE IF status = "healthy" /\ rot.id = id /\ rot.phase = "evicted"
    THEN [rot EXCEPT !.phase = "reentered"]
    ELSE rot

\* History: a request ends up being forwarded (pc = "forwarding") to the
\* instance that had re-entered the rotation (phase "reselected").
NoteSelection(rot, pc, id) ==
    IF pc = "forwarding" /\ rot.id = id /\ rot.phase = "reentered"
    THEN [rot EXCEPT !.phase = "reselected"]
    ELSE rot

\* _perform_health_checks reaches an enabled instance and sends its GET;
\* the instance, and the first instance with its id (the one the result
\* will be recorded for), have fewer than max checks recorded in a row.
HealthGetBounded(name, i, max) ==
    /\ health = NoHealth
    /\ name \in DOMAIN services
    /\ i \in 1..Len(services[name])
    /\ services[name][i].enabled
    /\ services[name][i].consecutive_failures < max
    /\ services[name][i].consecutive_successes < max
    /\ LET first == FirstWithId(services, name, services[name][i].id)
       IN  /\ services[name][first].consecutive_failures < max
           /\ services[name][first].consecutive_successes < max
    /\ health' = [service |-> name, id |-> services[name][i].id]
    /\ UNCHANGED <<now, settings, breakerVars, services, pipeVars, balancerVars>>
    /\ Takes(Sweep, <<>>)
    /\ UNCHANGED <<limiterVars, rotation, returned>>

\* The sweep of the proxy route and of the balancer.
HealthGet(name, i) == HealthGetBounded(name, i, MaxChecks)

\* The GET ends and _perform_health_checks records the status.
HealthResult(outcome) ==
    /\ health # NoHealth
    /\ services' = UpdateServiceStatus(services, health.service, health.id,
                                       HealthStatus(outcome), now)
    /\ health' = NoHealth
    /\ rotation' = NoteRecording(rotation, health.id, HealthStatus(outcome))
    /\ returned' = NoteReturn(returned, "_perform_health_checks",
                              health.service, health.id,
                              UpdateServiceStatusReturns(services, health.service,
                                                         health.id))
    /\ UNCHANGED <<now, settings, breakerVars, pipeVars, balancerVars>>
    /\ Takes(Sweep, UpdateServiceStatusLocks)
    /\ UNCHANGED limiterVars

\* gateway_middleware after call_next returned: the two response headers.
WithHeaders(resp) == [resp EXCEPT !.header_id = TRUE]

\* History: the run of consecutive forwarded requests answered 5xx.
CountOutcome(outcome) ==
    IF outcome # None /\ outcome.kind = "response" /\ outcome.status >= 500
    THEN /\ run_5xx' = run_5xx + 1
         /\ last_5xx_at' = now
    ELSE /\ run_5xx' = 0
         /\ UNCHANGED last_5xx_at

\* An inbound request runs gateway_middleware and proxy_request up to the
\* first suspension: authentication and rate limiting (their verdicts are
\* inputs), then the breaker's admission and route_request, which either
\* answers at once or sends the upstream call.  Requests are numbered in
\* arrival order.
RequestArrives(r, path, auth_ok, allowed) ==
    /\ req_pc[r] = "new"
    /\ \A q \in Requests : q < r => req_pc[q] # "new"
    /\ LET service == ParsePath(path, settings).service
           map == GetBreaker(breakers, service, settings)
           can == IF map[service].enabled THEN CanExecute(map[service], now)
                  ELSE [ok |-> TRUE, cell |-> map[service]]
       IN  IF settings.AUTH_ENABLED /\ ~auth_ok THEN
               \* JSONResponse(401), returned by the middleware itself
               /\ last_done' = Done(r, path, None, Resp(401, "Unauthorized", TRUE))
               /\ req_pc' = [req_pc EXCEPT ![r] = "done"]
               /\ UNCHANGED req
               /\ UNCHANGED <<breakers, disc_index, run_5xx, last_5xx_at>>
           ELSE IF settings.RATE_LIMIT_ENABLED /\ ~allowed THEN
               \* JSONResponse(429), returned by the middleware itself
               /\ last_done' = Done(r, path, None, Resp(429, "Too many requests", TRUE))
               /\ req_pc' = [req_pc EXCEPT ![r] = "done"]
               /\ UNCHANGED req
               /\ UNCHANGED <<breakers, disc_index, run_5xx, last_5xx_at>>
           ELSE IF settings.CIRCUIT_BREAKER_ENABLED /\ service = None THEN
               \* proxy_request falls off its end: the handler returns None
               /\ last_done' = Done(r, path, None, WithHeaders(Resp(200, "null", FALSE)))
               /\ req_pc' = [req_pc EXCEPT ![r] = "done"]
               /\ UNCHANGED req
               /\ UNCHANGED <<breakers, disc_index, run_5xx, last_5xx_at>>
           ELSE IF settings.CIRCUIT_BREAKER_ENABLED /\ ~can.ok THEN
               \* CircuitBreakerOpenError: JSONResponse(503)
               /\ last_done' = Done(r, path, None, WithHeaders(Resp(503,
                                "Service unavailable (circuit breaker open)",
                                FALSE)))
               /\ req_pc' = [req_pc EXCEPT ![r] = "done"]
               /\ UNCHANGED req
               /\ breakers' = [map EXCEPT ![service] = can.cell]
               /\ UNCHANGED <<disc_index, run_5xx, last_5xx_at>>
           ELSE \E route \in RouteRequest(path, settings, services, disc_index) :
               /\ disc_index' = route.index
               /\ IF route.instance = None
                  THEN \* route_request returned a Response: func returned
                       /\ last_done' = Done(r, path, None, WithHeaders(route.resp))
                       /\ req_pc' = [req_pc EXCEPT ![r] = "done"]
                       /\ UNCHANGED req
                       /\ breakers' =
                             IF settings.CIRCUIT_BREAKER_ENABLED
                             THEN [map EXCEPT ![service] =
                                      IF can.cell.enabled
                                      THEN OnSuccess(can.cell, now) ELSE can.cell]
                             ELSE breakers
                       /\ IF settings.CIRCUIT_BREAKER_ENABLED
                          THEN CountOutcome(None)
                          ELSE UNCHANGED <<run_5xx, last_5xx_at>>
                  ELSE \* _forward_request awaits the upstream's answer
                       /\ req' = [req EXCEPT ![r] =
                                     [path |-> path, instance |-> route.instance.id]]
                       /\ req_pc' = [req_pc EXCEPT ![r] = "forwarding"]
                       /\ UNCHANGED last_done
                       /\ breakers' =
                             IF settings.CIRCUIT_BREAKER_ENABLED
                             THEN [map EXCEPT ![service] = can.cell]
                             ELSE breakers
                       /\ UNCHANGED <<run_5xx, last_5xx_at>>
    /\ rotation' = NoteSelection(rotation, req_pc'[r], req'[r].instance)
    /\ UNCHANGED <<now, settings, cellVars, registryVars, balancerVars>>
    /\ Takes(<<"request", r>>,
             ArrivalLocks(path, settings, breakers, now, auth_ok, allowed,
                          req_pc'[r] = "forwarding"))
    /\ UNCHANGED <<limiterVars, returned>>

\* The upstream call of a forwarded request ends: _forward_request builds
\* its Response, route_request returns it, CircuitBreaker.call takes the
\* return as a success, the middleware adds the headers.
UpstreamAnswers(r, outcome) ==
    /\ req_pc[r] = "forwarding"
    /\ LET service == ParsePath(req[r].path, settings).service
       IN  breakers' =
              IF settings.CIRCUIT_BREAKER_ENABLED /\ breakers[service].enabled
              THEN [breakers EXCEPT ![service] = OnSuccess(@, now)]
              ELSE breakers
    /\ last_done' = Done(r, req[r].path, outcome,
                          WithHeaders(ForwardResponse(outcome)))
    /\ req' = [req EXCEPT ![r] = NewRequest]
    /\ req_pc' = [req_pc EXCEPT ![r] = "done"]
    /\ CountOutcome(outcome)
    /\ UNCHANGED <<now, settings, cellVars, registryVars, disc_index,
                   balancerVars>>
    /\ Takes(<<"request", r>>,
             IF /\ settings.CIRCUIT_BREAKER_ENABLED
                /\ breakers[ParsePath(req[r].path, settings).service].enabled
             THEN OnSuccessLocks ELSE <<>>)
    /\ UNCHANGED <<limiterVars, rotation, returned>>

\* The request's task is cancelled while the upstream call is in flight:
\* CancelledError passes every `except Exception` on its way out.
RequestCancelled(r) ==
    /\ req_pc[r] = "forwarding"
    /\ req_pc' = [req_pc EXCEPT ![r] = "cancelled"]
    /\ req' = [req EXCEPT ![r] = NewRequest]
    /\ UNCHANGED <<now, settings, breakerVars, registryVars,
                   disc_index, last_done, run_5xx, last_5xx_at, balancerVars>>
    /\ Unwinds(<<"request", r>>)
    /\ UNCHANGED <<limiterVars, rotation, returned>>

Next ==
    \/ Tick
    \/ \E i \in 1..1 : HealthGet(AUTH, i)
    \/ \E outcome \in Outcomes : HealthResult(outcome)
    \/ \E r \in Requests, path \in Paths, auth_ok \in BOOLEAN, allowed \in BOOLEAN :
          RequestArrives(r, path, auth_ok, allowed)
    \/ \E r \in Requests, outcome \in Outcomes : UpstreamAnswers(r, outcome)
    \/ \E r \in Requests : RequestCancelled(r)

Spec == Init /\ [][Next]_vars

\* ------------ SpecGate: the proxy route with a cell that can be open

\* The Settings object: the breaker is on, one failure opens the cell, a
\* second success would close it, one call is let through when HALF_OPEN.
GateSettings ==
    [GATEWAY_PREFIX : {<<"/", "a", "p", "i">>},
     LOAD_BALANCER_STRATEGY : {"round_robin"},
     AUTH_ENABLED : {TRUE},
     RATE_LIMIT_ENABLED : {TRUE},
     CIRCUIT_BREAKER_ENABLED : {TRUE},
     CIRCUIT_BREAKER_FAILURE_THRESHOLD : {1},
     CIRCUIT_BREAKER_SUCCESS_THRESHOLD : {2},
     CIRCUIT_BREAKER_TIMEOUT : {1},
     CIRCUIT_BREAKER_HALF_OPEN_MAX_CALLS : {1}]

\* As Init, with the breaker on.
InitGate ==
    /\ now = 0
    /\ settings \in GateSettings
    /\ breakers = EmptyMap
    /\ InitCell
    /\ services = RegisterService(EmptyMap, AUTH, "http://localhost:8000", "/", 1, 0)
    /\ health = NoHealth
    /\ disc_index = EmptyMap
    /\ req_pc = [r \in Requests |-> "new"]
    /\ req = [r \in Requests |-> NewRequest]
    /\ last_done = None
    /\ run_5xx = 0
    /\ last_5xx_at = NoTime
    /\ IdleBalancer
    /\ IdleLimiter
    /\ rotation = RotationOff
    /\ returned = ReturnedOff
    /\ held = NoLocks

\* The proxy route, and one caller that uses the cell of the service
\* directly through CircuitBreaker.call with a func that can raise: the
\* route's own func never raises, so only that caller makes the cell open.
NextGate ==
    \/ Tick
    \/ \E i \in 1..1 : HealthGet(AUTH, i)
    \/ \E outcome \in Outcomes : HealthResult(outcome)
    \/ \E r \in Requests, path \in Paths, auth_ok \in BOOLEAN, allowed \in BOOLEAN :
          RequestArrives(r, path, auth_ok, allowed)
    \/ \E r \in Requests, outcome \in Outcomes : UpstreamAnswers(r, outcome)
    \/ BreakerCall(1)
    \/ FuncReturn(1)
    \/ FuncRaise(1)

SpecGate == InitGate /\ [][NextGate]_vars

\* ------------------------------------- SpecBalancer: retry_request tasks

\* The two instances of the service.
BalancerUrls == <<"http://localhost:8000", "http://localhost:8001">>
\* The values of LOAD_BALANCER_RETRY_COUNT tried; 3 is the default.
RetryCounts == {1, 3}

\* The Settings objects tried on the balancer.
BalancerSettings ==
    [GATEWAY_PREFIX : {<<"/", "a", "p", "i">>},
     LOAD_BALANCER_STRATEGY : Strategies,
     LOAD_BALANCER_RETRY_COUNT : RetryCounts]

\* Two instances registered with weights 1 and 2, not yet health-checked;
\* no task has called retry_request.
InitBalancer ==
    /\ now = 0
    /\ settings \in BalancerSettings
    /\ breakers = EmptyMap
    /\ InitCell
    /\ services = RegisterService(
                     RegisterService(EmptyMap, AUTH, BalancerUrls[1], "/", 1, 0),
                     AUTH, BalancerUrls[2], "/", 2, 0)
    /\ health = NoHealth
    /\ disc_index = EmptyMap
    /\ req_pc = [r \in Requests |-> "new"]
    /\ req = [r \in Requests |-> NewRequest]
    /\ last_done = None
    /\ run_5xx = 0
    /\ last_5xx_at = NoTime
    /\ IdleBalancer
    /\ IdleLimiter
    /\ rotation = RotationOff
    /\ returned = ReturnedOff
    /\ held = NoLocks

\* retry_request from the top of iteration `attempt` to its next
\* suspension: select_instance either finds no healthy instance, and then
\* this and every later iteration `continue`, the loop ends and the
\* function raises; or it returns an instance and request_func is awaited.
Attempt(t, client_ip, attempt, last_error) ==
    \E sel \in SelectInstance(services[AUTH], AUTH, client_ip,
                              settings.LOAD_BALANCER_STRATEGY,
                              round_robin_index, connection_counts) :
        /\ round_robin_index' = sel.index
        /\ connection_counts' = sel.counts
        /\ IF sel.instance = None
           THEN /\ task_pc' = [task_pc EXCEPT ![t] = "raised"]
                /\ task' = [task EXCEPT ![t] =
                               [task[t] EXCEPT
                                  !.attempt = settings.LOAD_BALANCER_RETRY_COUNT - 1,
                                  !.instance = None,
                                  !.last_error = last_error,
                                  !.client_ip = client_ip]]
           ELSE /\ task_pc' = [task_pc EXCEPT ![t] = "calling"]
                /\ task' = [task EXCEPT ![t] =
                               [task[t] EXCEPT
                                  !.attempt = attempt,
                                  !.instance = sel.instance.id,
                                  !.last_error = last_error,
                                  !.client_ip = client_ip]]

\* A task calls retry_request.  Tasks are numbered in arrival order.
RetryRequest(t, client_ip) ==
    /\ task_pc[t] = "new"
    /\ \A q \in Tasks : q < t => task_pc[q] # "new"
    /\ Attempt(t, client_ip, 0, FALSE)
    /\ UNCHANGED <<now, settings, breakerVars, registryVars, pipeVars>>
    /\ Takes(<<"task", t>>,
             SelectInstanceLocks(settings.LOAD_BALANCER_STRATEGY,
                                 task_pc'[t] = "calling"))
    /\ UNCHANGED <<limiterVars, rotation, returned>>

\* request_func returned: release_instance, return result.
RequestFuncReturns(t) ==
    /\ task_pc[t] = "calling"
    /\ connection_counts' = ReleaseInstance(connection_counts, task[t].instance)
    /\ task_pc' = [task_pc EXCEPT ![t] = "returned"]
    /\ UNCHANGED <<now, settings, breakerVars, registryVars, pipeVars,
                   round_robin_index, task>>
    /\ Takes(<<"task", t>>, ReleaseInstanceLocks)
    /\ UNCHANGED <<limiterVars, rotation, returned>>

\* As RequestFuncRaises, but the sleep and the next attempt follow every
\* failure.
RequestFuncRaises_AlwaysRetries(t) ==
    /\ task_pc[t] = "calling"
    /\ connection_counts' = ReleaseInstance(connection_counts, task[t].instance)
    /\ task' = [task EXCEPT ![t].last_error = TRUE]
    /\ task_pc' = [task_pc EXCEPT ![t] = "sleeping"]
    /\ UNCHANGED <<now, settings, breakerVars, registryVars, pipeVars,
                   round_robin_index>>
    /\ Takes(<<"task", t>>, ReleaseInstanceLocks)
    /\ UNCHANGED <<limiterVars, rotation, returned>>

\* request_func raised an Exception: last_error, release_instance, then the
\* sleep before the next attempt, or the end of the loop and the raise.
RequestFuncRaises(t) ==
    /\ task_pc[t] = "calling"
    /\ connection_counts' = ReleaseInstance(connection_counts, task[t].instance)
    /\ task' = [task EXCEPT ![t].last_error = TRUE]
    /\ task_pc' = [task_pc EXCEPT ![t] =
                      IF task[t].attempt < settings.LOAD_BALANCER_RETRY_COUNT - 1
                      THEN "sleeping" ELSE "raised"]
    /\ UNCHANGED <<now, settings, breakerVars, registryVars, pipeVars,
                   round_robin_index>>
    /\ Takes(<<"task", t>>, ReleaseInstanceLocks)
    /\ UNCHANGED <<limiterVars, rotation, returned>>

\* asyncio.sleep(retry_delay) is over: the next iteration.
SleepEnds(t) ==
    /\ task_pc[t] = "sleeping"
    /\ Attempt(t, task[t].client_ip, task[t].attempt + 1, task[t].last_error)
    /\ UNCHANGED <<now, settings, breakerVars, registryVars, pipeVars>>
    /\ Takes(<<"task", t>>,
             SelectInstanceLocks(settings.LOAD_BALANCER_STRATEGY,
                                 task_pc'[t] = "calling"))
    /\ UNCHANGED <<limiterVars, rotation, returned>>

\* The task is cancelled at one of its suspensions: CancelledError is a
\* BaseException, `except Exception` does not catch it and nothing is
\* released.
TaskCancelled(t) ==
    /\ task_pc[t] \in {"calling", "sleeping", "forwarding"}
    /\ task_pc' = [task_pc EXCEPT ![t] = "cancelled"]
    /\ UNCHANGED <<now, settings, breakerVars, registryVars, pipeVars,
                   round_robin_index, connection_counts, task>>
    /\ Unwinds(<<"task", t>>)
    /\ UNCHANGED <<limiterVars, rotation, returned>>

\* RequestRouter.route_with_retry up to its first suspension: _parse_path,
\* get_service, then retry_request with _forward_request as request_func.
\* A path without a service is answered 400, a service without enabled
\* instances 404; when retry_request raises (no healthy instance in any
\* iteration) the answer is 503; otherwise the forward to the selected
\* instance is awaited.
RouteWithRetry(t, path, client_ip) ==
    /\ task_pc[t] = "new"
    /\ \A q \in Tasks : q < t => task_pc[q] # "new"
    /\ LET service == ParsePath(path, settings).service
           instances == IF service = None THEN <<>>
                        ELSE GetService(services, service)
       IN  IF service = None \/ instances = <<>>
           THEN /\ last_done' =
                     Done(t, path, None,
                          IF service = None
                          THEN Resp(400, "Invalid path", FALSE)
                          ELSE Resp(404, "Service not found", FALSE))
                /\ task_pc' = [task_pc EXCEPT ![t] = "returned"]
                /\ task' = [task EXCEPT ![t].path = path,
                                        ![t].client_ip = client_ip]
                /\ UNCHANGED <<round_robin_index, connection_counts>>
           ELSE \E sel \in SelectInstance(instances, service, client_ip,
                                         settings.LOAD_BALANCER_STRATEGY,
                                         round_robin_index, connection_counts) :
                /\ round_robin_index' = sel.index
                /\ connection_counts' = sel.counts
                /\ IF sel.instance = None
                   THEN /\ last_done' =
                             Done(t, path, None,
                                  Resp(503, "Service unavailable", FALSE))
                        /\ task_pc' = [task_pc EXCEPT ![t] = "returned"]
                        /\ task' = [task EXCEPT
                                       ![t].path = path,
                                       ![t].client_ip = client_ip,
                                       ![t].attempt =
                                          settings.LOAD_BALANCER_RETRY_COUNT - 1]
                   ELSE /\ task_pc' = [task_pc EXCEPT ![t] = "forwarding"]
                        /\ task' = [task EXCEPT
                                       ![t].path = path,
                                       ![t].client_ip = client_ip,
                                       ![t].instance = sel.instance.id]
                        /\ UNCHANGED last_done
    /\ UNCHANGED <<now, settings, breakerVars, registryVars,
                   disc_index, req_pc, req, run_5xx, last_5xx_at>>
    /\ Takes(<<"task", t>>,
             RouteWithRetryLocks(path, settings, services,
                                 task_pc'[t] = "forwarding"))
    /\ UNCHANGED <<limiterVars, rotation, returned>>

\* The upstream call of a forward made by route_with_retry ends:
\* _forward_request returns its Response whatever the outcome, so
\* retry_request releases the instance and returns that Response.
ForwardEnds(t, outcome) ==
    /\ task_pc[t] = "forwarding"
    /\ connection_counts' = ReleaseInstance(connection_counts, task[t].instance)
    /\ last_done' = Done(t, task[t].path, outcome, ForwardResponse(outcome))
    /\ task_pc' = [task_pc EXCEPT ![t] = "returned"]
    /\ UNCHANGED <<now, settings, breakerVars, registryVars,
                   disc_index, req_pc, req, run_5xx, last_5xx_at,
                   round_robin_index, task>>
    /\ Takes(<<"task", t>>, ReleaseInstanceLocks)
    /\ UNCHANGED <<limiterVars, rotation, returned>>

NextBalancer ==
    \/ \E i \in 1..Len(BalancerUrls) : HealthGet(AUTH, i)
    \/ \E outcome \in Outcomes : HealthResult(outcome)
    \/ \E t \in Tasks, client_ip \in ClientIps : RetryRequest(t, client_ip)
    \/ \E t \in Tasks : RequestFuncReturns(t)
    \/ \E t \in Tasks : RequestFuncRaises(t)
    \/ \E t \in Tasks : SleepEnds(t)
    \/ \E t \in Tasks : TaskCancelled(t)
    \/ \E t \in Tasks, path \in Paths, client_ip \in ClientIps :
          RouteWithRetry(t, path, client_ip)
    \/ \E t \in Tasks, outcome \in Outcomes : ForwardEnds(t, outcome)

SpecBalancer == InitBalancer /\ [][NextBalancer]_vars

\* ----------------- SpecRetry: retry_request with calls that always end

\* The address of the one client of retry_request.
LockClientIps == {"10.0.0.1"}

\* The Settings objects tried: one attempt and the default three.
RetrySettings ==
    [GATEWAY_PREFIX : {<<"/", "a", "p", "i">>},
     LOAD_BALANCER_STRATEGY : {"round_robin"},
     LOAD_BALANCER_RETRY_COUNT : RetryCounts]

\* As InitBalancer, with those settings.
InitRetry ==
    /\ now = 0
    /\ settings \in RetrySettings
    /\ breakers = EmptyMap
    /\ InitCell
    /\ services = RegisterService(
                     RegisterService(EmptyMap, AUTH, BalancerUrls[1], "/", 1, 0),
                     AUTH, BalancerUrls[2], "/", 2, 0)
    /\ health = NoHealth
    /\ disc_index = EmptyMap
    /\ req_pc = [r \in Requests |-> "new"]
    /\ req = [r \in Requests |-> NewRequest]
    /\ last_done = None
    /\ run_5xx = 0
    /\ last_5xx_at = NoTime
    /\ IdleBalancer
    /\ IdleLimiter
    /\ rotation = RotationOff
    /\ returned = ReturnedOff
    /\ held = NoLocks

\* The sweep and the tasks that call retry_request.
NextRetry ==
    \/ \E i \in 1..Len(BalancerUrls) : HealthGetBounded(AUTH, i, MaxRechecks)
    \/ \E outcome \in Outcomes : HealthResult(outcome)
    \/ \E t \in Tasks, client_ip \in LockClientIps : RetryRequest(t, client_ip)
    \/ \E t \in Tasks : RequestFuncReturns(t)
    \/ \E t \in Tasks : RequestFuncRaises(t)
    \/ \E t \in Tasks : SleepEnds(t)
    \/ \E t \in Tasks : TaskCancelled(t)

\* request_func is _forward_request on an httpx client with a timeout, and
\* asyncio.sleep(retry_delay) ends: a task that waits for either goes on.
RetryFairness ==
    \A t \in Tasks :
        /\ WF_vars(RequestFuncReturns(t) \/ RequestFuncRaises(t))
        /\ WF_vars(SleepEnds(t))

SpecRetry == InitRetry /\ [][NextRetry]_vars /\ RetryFairness

\* ------------- SpecLocks: every task that waits for an upstream, together

\* The Settings objects tried: the breaker on and off, a strategy that
\* takes the selection lock and one that does not, one retry.
LockSettings ==
    [GATEWAY_PREFIX : {<<"/", "a", "p", "i">>},
     LOAD_BALANCER_STRATEGY : {"round_robin", "random"},
     LOAD_BALANCER_RETRY_COUNT : {2},
     AUTH_ENABLED : {TRUE},
     RATE_LIMIT_ENABLED : {TRUE},
     CIRCUIT_BREAKER_ENABLED : BOOLEAN,
     CIRCUIT_BREAKER_FAILURE_THRESHOLD : {1},
     CIRCUIT_BREAKER_SUCCESS_THRESHOLD : {2},
     CIRCUIT_BREAKER_TIMEOUT : {1},
     CIRCUIT_BREAKER_HALF_OPEN_MAX_CALLS : {1}]

\* As InitGate, with those settings.
InitLocks ==
    /\ now = 0
    /\ settings \in LockSettings
    /\ breakers = EmptyMap
    /\ InitCell
    /\ services = RegisterService(EmptyMap, AUTH, "http://localhost:8000", "/", 1, 0)
    /\ health = NoHealth
    /\ disc_index = EmptyMap
    /\ req_pc = [r \in Requests |-> "new"]
    /\ req = [r \in Requests |-> NewRequest]
    /\ last_done = None
    /\ run_5xx = 0
    /\ last_5xx_at = NoTime
    /\ IdleBalancer
    /\ IdleLimiter
    /\ rotation = RotationOff
    /\ returned = ReturnedOff
    /\ held = NoLocks

\* The sweep, the proxy route, one direct caller of the cell and one
\* retry_request task, interleaved at their suspensions.
NextLocks ==
    \/ \E i \in 1..1 : HealthGetBounded(AUTH, i, MaxRechecks)
    \/ \E outcome \in Outcomes : HealthResult(outcome)
    \/ \E r \in Requests, path \in Paths, auth_ok \in BOOLEAN, allowed \in BOOLEAN :
          RequestArrives(r, path, auth_ok, allowed)
    \/ \E r \in Requests, outcome \in Outcomes : UpstreamAnswers(r, outcome)
    \/ BreakerCall(1)
    \/ FuncReturn(1)
    \/ FuncRaise(1)
    \/ \E client_ip \in LockClientIps : RetryRequest(1, client_ip)
    \/ RequestFuncReturns(1)
    \/ RequestFuncRaises(1)
    \/ SleepEnds(1)

SpecLocks == InitLocks /\ [][NextLocks]_vars

\* ------------------------------ SpecRegistry: the registry under selection

\* The Settings objects tried: the breaker is off, so a request goes from
\* the middleware straight to route_request; discovery takes its strategy
\* from LOAD_BALANCER_STRATEGY.
RegistrySettings ==
    [GATEWAY_PREFIX : {<<"/", "a", "p", "i">>},
     LOAD_BALANCER_STRATEGY : {"round_robin", "random", "least_connections",
                               "weighted"},
     AUTH_ENABLED : {TRUE},
     RATE_LIMIT_ENABLED : {TRUE},
     CIRCUIT_BREAKER_ENABLED : {FALSE},
     CIRCUIT_BREAKER_FAILURE_THRESHOLD : {1},
     CIRCUIT_BREAKER_SUCCESS_THRESHOLD : {2},
     CIRCUIT_BREAKER_TIMEOUT : {1},
     CIRCUIT_BREAKER_HALF_OPEN_MAX_CALLS : {3}]

\* As Init: one auth instance registered, not yet health-checked.
InitRegistry ==
    /\ now = 0
    /\ settings \in RegistrySettings
    /\ breakers = EmptyMap
    /\ InitCell
    /\ services = RegisterService(EmptyMap, AUTH, BalancerUrls[1], "/", 1, 0)
    /\ health = NoHealth
    /\ disc_index = EmptyMap
    /\ req_pc = [r \in Requests |-> "new"]
    /\ req = [r \in Requests |-> NewRequest]
    /\ last_done = None
    /\ run_5xx = 0
    /\ last_5xx_at = NoTime
    /\ IdleBalancer
    /\ IdleLimiter
    /\ rotation = RotationOff
    /\ returned = ReturnedOff
    /\ held = NoLocks

\* register_service is called for a further instance of the service.
Register ==
    /\ Len(services[AUTH]) < Len(BalancerUrls)
    /\ services' = RegisterService(services, AUTH,
                                   BalancerUrls[Len(services[AUTH]) + 1],
                                   "/", 2, now)
    /\ UNCHANGED <<now, settings, breakerVars, health, pipeVars, balancerVars>>
    /\ UNCHANGED <<limiterVars, rotation, returned, held>>

\* disable_service is called for an instance that is enabled.
Disable(i) ==
    /\ i \in 1..Len(services[AUTH])
    /\ services[AUTH][i].enabled
    /\ services' = DisableService(services, AUTH, services[AUTH][i].id)
    /\ UNCHANGED <<now, settings, breakerVars, health, pipeVars, balancerVars>>
    /\ UNCHANGED <<limiterVars, rotation, returned, held>>

\* enable_service is called for an instance that is not enabled.
Enable(i) ==
    /\ i \in 1..Len(services[AUTH])
    /\ ~services[AUTH][i].enabled
    /\ services' = EnableService(services, AUTH, services[AUTH][i].id)
    /\ UNCHANGED <<now, settings, breakerVars, health, pipeVars, balancerVars>>
    /\ UNCHANGED <<limiterVars, rotation, returned, held>>

\* update_service_status is called from outside the sweep, with any status.
UpdateStatus(i, status) ==
    /\ i \in 1..Len(services[AUTH])
    /\ services[AUTH][i].consecutive_failures < MaxRechecks
    /\ services[AUTH][i].consecutive_successes < MaxRechecks
    /\ services' = UpdateServiceStatus(services, AUTH, services[AUTH][i].id,
                                       status, now)
    /\ rotation' = NoteRecording(rotation, services[AUTH][i].id, status)
    /\ UNCHANGED <<now, settings, breakerVars, health, pipeVars, balancerVars>>
    /\ UNCHANGED <<limiterVars, returned, held>>

NextRegistry ==
    \/ Register
    \/ \E i \in 1..Len(BalancerUrls) : Disable(i)
    \/ \E i \in 1..Len(BalancerUrls) : Enable(i)
    \/ \E i \in 1..Len(BalancerUrls), status \in Statuses : UpdateStatus(i, status)
    \/ \E i \in 1..Len(BalancerUrls) : HealthGetBounded(AUTH, i, MaxRechecks)
    \/ \E outcome \in Outcomes : HealthResult(outcome)
    \/ \E r \in Requests : RequestArrives(r, PathAuthMe, TRUE, TRUE)
    \/ \E r \in Requests : UpstreamAnswers(r, [kind |-> "response", status |-> 200])

SpecRegistry == InitRegistry /\ [][NextRegistry]_vars

\* ------------------ SpecRotation: the sweep alone records the statuses

\* As InitRegistry, with the history of the rotation kept.
InitRotation ==
    /\ now = 0
    /\ settings \in RegistrySettings
    /\ breakers = EmptyMap
    /\ InitCell
    /\ services = RegisterService(EmptyMap, AUTH, BalancerUrls[1], "/", 1, 0)
    /\ health = NoHealth
    /\ disc_index = EmptyMap
    /\ req_pc = [r \in Requests |-> "new"]
    /\ req = [r \in Requests |-> NewRequest]
    /\ last_done = None
    /\ run_5xx = 0
    /\ last_5xx_at = NoTime
    /\ IdleBalancer
    /\ IdleLimiter
    /\ rotation = NoRotation
    /\ returned = ReturnedOff
    /\ held = NoLocks

\* As NextRegistry, without calls of update_service_status from outside
\* the sweep (the gateway makes none).
NextRotation ==
    \/ Register
    \/ \E i \in 1..Len(BalancerUrls) : Disable(i)
    \/ \E i \in 1..Len(BalancerUrls) : Enable(i)
    \/ \E i \in 1..Len(BalancerUrls) : HealthGetBounded(AUTH, i, MaxRechecks)
    \/ \E outcome \in Outcomes : HealthResult(outcome)
    \/ \E r \in Requests : RequestArrives(r, PathAuthMe, TRUE, TRUE)
    \/ \E r \in Requests : UpstreamAnswers(r, [kind |-> "response", status |-> 200])

SpecRotation == InitRotation /\ [][NextRotation]_vars

\* ------------- SpecLifecycle: register, unregister and status updates

\* The second service of DEFAULT_BACKENDS.
MODEL == <<"m", "o", "d", "e", "l">>
\* The service names the calls are made for.
LifecycleNames == {AUTH, MODEL}
\* The url registered: every instance of a service has the same.
LifecycleUrls == {BalancerUrls[1]}
\* The instance ids the calls are made with: those register_service can
\* have returned, registered or not.
LifecycleIds ==
    {RegisterReturns(name, url, t) :
        name \in LifecycleNames, url \in LifecycleUrls, t \in 0..MaxClock}
\* The Settings object: the registry reads none of it.
LifecycleSettings ==
    {s \in RegistrySettings : s.LOAD_BALANCER_STRATEGY = "round_robin"}
\* The number of instances registered, over all services.
Registered(map) == SumLen(map, DOMAIN map)

\* ServiceRegistry.__init__: no service; the history of the calls is kept.
InitLifecycle ==
    /\ now = 0
    /\ settings \in LifecycleSettings
    /\ breakers = EmptyMap
    /\ InitCell
    /\ services = EmptyMap
    /\ health = NoHealth
    /\ disc_index = EmptyMap
    /\ req_pc = [r \in Requests |-> "new"]
    /\ req = [r \in Requests |-> NewRequest]
    /\ last_done = None
    /\ run_5xx = 0
    /\ last_5xx_at = NoTime
    /\ IdleBalancer
    /\ IdleLimiter
    /\ rotation = RotationOff
    /\ returned = NoReturn
    /\ held = NoLocks

\* datetime.now() moves on to a later reading.
ClockAdvances ==
    /\ now < MaxClock
    /\ now' = now + 1
    /\ UNCHANGED <<settings, breakerVars, registryVars, pipeVars, balancerVars>>
    /\ UNCHANGED <<limiterVars, rotation, returned, held>>

\* register_service(name, url) is called and returns its instance.
RegisterCall(name, url) ==
    /\ Registered(services) < MaxInstances
    /\ services' = RegisterService(services, name, url, "/", 1, now)
    /\ returned' = NoteReturn(returned, "register_service", name,
                              RegisterReturns(name, url, now), TRUE)
    /\ UNCHANGED <<now, settings, breakerVars, health, pipeVars, balancerVars>>
    /\ UNCHANGED <<limiterVars, rotation, held>>

\* unregister_service(name, id) is called, for any name and id.
UnregisterCall(name, id) ==
    /\ services' = UnregisterService(services, name, id)
    /\ returned' = NoteReturn(returned, "unregister_service", name, id,
                              UnregisterReturns(services, name, id))
    /\ UNCHANGED <<now, settings, breakerVars, health, pipeVars, balancerVars>>
    /\ UNCHANGED <<limiterVars, rotation, held>>

\* update_service_status(name, id, status) is called, for any name and id;
\* an instance found has no recording yet.
UpdateStatusCall(name, id, status) ==
    /\ LET i == FirstWithId(services, name, id)
       IN  i # 0 => /\ services[name][i].consecutive_failures < MaxChecks
                    /\ services[name][i].consecutive_successes < MaxChecks
    /\ services' = UpdateServiceStatus(services, name, id, status, now)
    /\ returned' = NoteReturn(returned, "update_service_status", name, id,
                              UpdateServiceStatusReturns(services, name, id))
    /\ UNCHANGED <<now, settings, breakerVars, health, pipeVars, balancerVars>>
    /\ UNCHANGED <<limiterVars, rotation, held>>

NextLifecycle ==
    \/ ClockAdvances
    \/ \E name \in LifecycleNames, url \in LifecycleUrls : RegisterCall(name, url)
    \/ \E id \in LifecycleIds : UnregisterCall(id[1], id)
    \/ \E id \in LifecycleIds, status \in {"healthy", "unhealthy"} :
          UpdateStatusCall(id[1], id, status)
    \/ \E name \in LifecycleNames, i \in 1..MaxInstances :
          HealthGetBounded(name, i, MaxChecks)
    \/ \E outcome \in Outcomes : HealthResult(outcome)

SpecLifecycle == InitLifecycle /\ [][NextLifecycle]_vars

\* ------------------------- SpecWeighted: selection by weight, weight 0

\* The urls of the instances registered, in this order.
WeightedUrls ==
    <<"http://localhost:8000", "http://localhost:8001", "http://localhost:8002">>
\* The Settings object: the weighted strategy, the breaker off.
WeightedSettings ==
    {s \in RegistrySettings : s.LOAD_BALANCER_STRATEGY = "weighted"}

\* ServiceRegistry.__init__: no service.
InitWeighted ==
    /\ now = 0
    /\ settings \in WeightedSettings
    /\ breakers = EmptyMap
    /\ InitCell
    /\ services = EmptyMap
    /\ health = NoHealth
    /\ disc_index = EmptyMap
    /\ req_pc = [r \in Requests |-> "new"]
    /\ req = [r \in Requests |-> NewRequest]
    /\ last_done = None
    /\ run_5xx = 0
    /\ last_5xx_at = NoTime
    /\ IdleBalancer
    /\ IdleLimiter
    /\ rotation = RotationOff
    /\ returned = ReturnedOff
    /\ held = NoLocks

\* register_service is called for the next instance of the service, with
\* any weight.
RegisterWeighted(weight) ==
    /\ Registered(services) < Len(WeightedUrls)
    /\ services' = RegisterService(services, AUTH,
                                   WeightedUrls[Registered(services) + 1],
                                   "/", weight, now)
    /\ UNCHANGED <<now, settings, breakerVars, health, pipeVars, balancerVars>>
    /\ UNCHANGED <<limiterVars, rotation, returned, held>>

NextWeighted ==
    \/ \E weight \in 0..MaxWeight : RegisterWeighted(weight)
    \/ \E i \in 1..Len(WeightedUrls) : HealthGetBounded(AUTH, i, MaxChecks)
    \/ \E outcome \in Outcomes : HealthResult(outcome)
    \/ \E r \in Requests : RequestArrives(r, PathAuthMe, TRUE, TRUE)
    \/ \E r \in Requests : UpstreamAnswers(r, [kind |-> "response", status |-> 200])

SpecWeighted == InitWeighted /\ [][NextWeighted]_vars

\* ------------- SpecSelect: round-robin and least-connections discovery

\* The Settings objects: the two strategies, the breaker off.
SelectSettings ==
    {s \in RegistrySettings :
        s.LOAD_BALANCER_STRATEGY \in {"round_robin", "least_connections"}}

\* ServiceRegistry.__init__: no service.
InitSelect ==
    /\ now = 0
    /\ settings \in SelectSettings
    /\ breakers = EmptyMap
    /\ InitCell
    /\ services = EmptyMap
    /\ health = NoHealth
    /\ disc_index = EmptyMap
    /\ req_pc = [r \in Requests |-> "new"]
    /\ req = [r \in Requests |-> NewRequest]
    /\ last_done = None
    /\ run_5xx = 0
    /\ last_5xx_at = NoTime
    /\ IdleBalancer
    /\ IdleLimiter
    /\ rotation = RotationOff
    /\ returned = ReturnedOff
    /\ held = NoLocks

\* Up to three instances are registered and swept; requests come through
\* the proxy route and their upstream calls end.
NextSelect ==
    \/ RegisterWeighted(1)
    \/ \E i \in 1..Len(WeightedUrls) : HealthGetBounded(AUTH, i, MaxChecks)
    \/ \E outcome \in Outcomes : HealthResult(outcome)
    \/ \E r \in Requests : RequestArrives(r, PathAuthMe, TRUE, TRUE)
    \/ \E r \in Requests : UpstreamAnswers(r, [kind |-> "response", status |-> 200])

SpecSelect == InitSelect /\ [][NextSelect]_vars

\* --------------------------------------- SpecLimiter: is_allowed calls

\* The client identities calling.
Identifiers == {"1.2.3.4", "5.6.7.8"}
\* The clock readings at which calls are made, in seconds: the ends of a
\* window and one second inside and outside it.
ClockReadings == {0, 59, 60, 61}
\* The `tokens` arguments tried.
TokenCounts == {1, 2}

\* The Settings objects tried on the limiter.
LimiterSettings ==
    [RATE_LIMIT_ENABLED : {TRUE},
     RATE_LIMIT_STRATEGY : LimitStrategies,
     RATE_LIMIT_REQUESTS_PER_MINUTE : 1..MaxRate,
     RATE_LIMIT_BURST_SIZE : 1..MaxRate]

\* The number of calls recorded so far.
CallsMade ==
    LET Count(id) == IF id \in DOMAIN calls THEN Len(calls[id]) ELSE 0
    IN  Count("1.2.3.4") + Count("5.6.7.8")

\* lifespan built the RateLimiter; nothing else has happened.
InitLimiter ==
    /\ now = 0
    /\ settings \in LimiterSettings
    /\ breakers = EmptyMap
    /\ InitCell
    /\ IdleGateway
    /\ IdleBalancer
    /\ IdleLimiter
    /\ rotation = RotationOff
    /\ returned = ReturnedOff
    /\ held = NoLocks

\* The clock moves on to a later reading.
AdvanceClock(t) ==
    /\ t > now
    /\ now' = t
    /\ UNCHANGED <<settings, breakerVars, registryVars, pipeVars, balancerVars,
                   limiterVars, rotation, returned, held>>

\* A caller awaits is_allowed(identifier, tokens); the call is recorded
\* with its verdict.  A call with a fault is recorded with tokens 0.
IsAllowedCall(identifier, n, fault) ==
    /\ CallsMade < NumCalls
    /\ fault = "none" <=> n > 0
    /\ LET res == IsAllowed(limiter, settings, identifier, n, fault, now)
           old == IF identifier \in DOMAIN calls THEN calls[identifier] ELSE <<>>
       IN  /\ limiter' = res.limiter
           /\ calls' = Put(calls, identifier,
                           Append(old, [t |-> now, tokens |-> n, fault |-> fault,
                                        allowed |-> res.allowed]))
    /\ UNCHANGED <<now, settings, breakerVars, registryVars, pipeVars,
                   balancerVars, rotation, returned, held>>

NextLimiter ==
    \/ \E t \in ClockReadings : AdvanceClock(t)
    \/ \E identifier \in Identifiers, n \in TokenCounts :
          IsAllowedCall(identifier, n, "none")
    \/ \E identifier \in Identifiers, fault \in Faults :
          IsAllowedCall(identifier, 0, fault)

SpecLimiter == InitLimiter /\ [][NextLimiter]_vars

\* ------------------------------------------- properties of the breaker cell

\* Caller r makes its call in this step.
Attempts(r) == call_pc[r] = "new" /\ call_pc'[r] # "new"
\* This step records a success / a failure in the cell's statistics.
RecordsSuccess == Cell'.stats.success_calls = Cell.stats.success_calls + 1
RecordsFailure == Cell'.stats.failure_calls = Cell.stats.failure_calls + 1
\* Callers admitted in the current HALF_OPEN period whose func has not completed.
HalfOpenInFlight == {r \in probe : call_pc[r] = "running"}
ExactlyOneNonZero(b) ==
    (b.stats.consecutive_failures # 0) # (b.stats.consecutive_successes # 0)

\* C3, as stated: once the cell went OPEN at clock reading t, no wrapped
\* function is started before t + open_timeout, whatever operations
\* (calls, outcomes, reset) run in between.
C3_NoStartBeforeTimeout_AnyOps ==
    [][\A r \in Callers :
          (call_pc[r] = "new" /\ call_pc'[r] = "running" /\ opened_at # NoTime)
          => now >= opened_at + settings.CIRCUIT_BREAKER_TIMEOUT]_vars

\* C3, amended: once the cell went OPEN at clock reading t, no wrapped
\* function is started before t + open_timeout unless reset() ran after t.
C3_NoStartBeforeTimeout ==
    [][\A r \in Callers :
          (call_pc[r] = "new" /\ call_pc'[r] = "running"
             /\ opened_at # NoTime /\ ~reset_since_open)
          => now >= opened_at + settings.CIRCUIT_BREAKER_TIMEOUT]_vars

\* C3 witness: a call was started by the OPEN -> HALF_OPEN transition, with
\* no reset since the cell opened.
C3_Witness ==
    /\ HasCell /\ Cell.state = "half_open" /\ last_op = "half_open"
    /\ opened_at # NoTime /\ ~reset_since_open
    /\ now >= opened_at + settings.CIRCUIT_BREAKER_TIMEOUT
    /\ \E r \in Callers : call_pc[r] = "running"

\* C4: while the cell is HALF_OPEN, the calls admitted in that period and not
\* yet completed never number more than half_open_max_calls.
C4_HalfOpenInFlightBounded ==
    (HasCell /\ Cell.state = "half_open")
    => Cardinality(HalfOpenInFlight) <= Cell.config.half_open_max_calls

\* C5: a CLOSED cell has consecutive_failures < failure_threshold; it leaves
\* CLOSED only to OPEN, exactly in the step that records the failure bringing
\* consecutive_failures to failure_threshold; a recorded success leaves it
\* CLOSED with consecutive_failures = 0.
C5_ClosedOpensAtThreshold ==
    /\ []((HasCell /\ Cell.state = "closed")
            => Cell.stats.consecutive_failures < Cell.config.failure_threshold)
    /\ [][(HasCell /\ Cell.state = "closed") =>
            /\ Cell'.state \in {"closed", "open"}
            /\ (Cell'.state = "open") <=>
                  (RecordsFailure /\ Cell'.stats.consecutive_failures
                                      >= Cell.config.failure_threshold)
            /\ RecordsSuccess =>
                  (Cell'.stats.consecutive_failures = 0 /\ Cell'.state = "closed")
         ]_vars

\* C5 witness: failure_threshold failures were recorded, not consecutively,
\* and the cell has never opened.
C5_Witness ==
    /\ HasCell /\ Cell.state = "closed" /\ opened_at = NoTime
    /\ Cell.stats.failure_calls >= Cell.config.failure_threshold
    /\ Cell.stats.success_calls >= 1

\* C6: a call attempted on an OPEN cell once now - last_failure_time >=
\* open_timeout is admitted and leaves the cell HALF_OPEN with
\* consecutive_successes = 0; the success that brings the successes recorded
\* since then to success_threshold leaves the cell CLOSED; every call
\* attempted on a CLOSED cell is admitted.
C6_RecoveryPath ==
    [][(HasCell /\ Cell.enabled) =>
         /\ \A r \in Callers : Attempts(r) =>
              /\ (Cell.state = "open"
                    /\ Cell.stats.last_failure_time # NoTime
                    /\ now - Cell.stats.last_failure_time >= Cell.config.timeout)
                 => (call_pc'[r] = "running" /\ Cell'.state = "half_open"
                       /\ Cell'.stats.consecutive_successes = 0)
              /\ Cell.state = "closed" => call_pc'[r] = "running"
         /\ (Cell.state = "half_open" /\ RecordsSuccess
               /\ ho_successes' >= Cell.config.success_threshold)
            => Cell'.state = "closed"
      ]_vars

\* C6 witness: the cell opened, recovered through HALF_OPEN by
\* success_threshold successes (no reset), and a later call was admitted.
C6_Witness ==
    /\ HasCell /\ Cell.state = "closed" /\ last_op = "admit"
    /\ opened_at # NoTime /\ ~reset_since_open
    /\ ho_successes >= Cell.config.success_threshold

\* C7: a failure recorded while the cell is HALF_OPEN leaves it OPEN in the
\* same step, whatever successes were counted, and the next reset attempt is
\* due open_timeout after that failure.
C7_HalfOpenFailureReopens ==
    [][(HasCell /\ Cell.state = "half_open" /\ RecordsFailure) =>
         /\ Cell'.state = "open"
         /\ Cell'.stats.last_failure_time = now
         /\ \A t \in 0..(MaxTime + MaxThreshold) :
               ShouldAttemptReset(Cell', t) <=> (t >= now + Cell.config.timeout)
      ]_vars

\* C7 witness: the cell re-opened from HALF_OPEN after at least one success
\* had been counted there.
C7_Witness ==
    /\ HasCell /\ Cell.state = "open" /\ opened_from = "half_open"
    /\ last_op = "failure" /\ ho_successes >= 1

\* C8, as stated: after every state-mutating call (a recorded success or
\* failure, the OPEN -> HALF_OPEN transition, reset) exactly one of
\* consecutive_failures and consecutive_successes is non-zero.
C8_ExactlyOneAfterAnyMutation ==
    (HasCell /\ Cell.enabled
       /\ last_op \in {"success", "failure", "half_open", "reset"})
    => ExactlyOneNonZero(Cell)

\* C8, amended: after a recorded success or failure exactly one of the two
\* counters is non-zero; they are never both non-zero; after reset both are
\* zero and after the OPEN -> HALF_OPEN transition consecutive_successes is.
C8_CountersExclusive ==
    (HasCell /\ Cell.enabled) =>
       /\ last_op \in {"success", "failure"} => ExactlyOneNonZero(Cell)
       /\ ~(Cell.stats.consecutive_failures # 0
              /\ Cell.stats.consecutive_successes # 0)
       /\ last_op = "reset" =>
             (Cell.stats.consecutive_failures = 0
                /\ Cell.stats.consecutive_successes = 0)
       /\ last_op = "half_open" => Cell.stats.consecutive_successes = 0

\* C8 witness: a failure was recorded after a success had been.
C8_Witness ==
    /\ HasCell /\ Cell.enabled /\ last_op = "failure"
    /\ Cell.stats.success_calls >= 1
    /\ Cell.stats.consecutive_failures >= 1

\* ------------------------------------------- properties of the proxy route

\* The service a path names, as _parse_path reads it.
ServiceOf(path) == ParsePath(path, settings).service
\* Request r arrives in this step, names AUTH and passes authentication
\* and rate limiting.
ReachesProxy(r) ==
    /\ req_pc[r] = "new"
    /\ \/ /\ req_pc'[r] = "forwarding"
          /\ ServiceOf(req'[r].path) = AUTH
       \/ /\ req_pc'[r] = "done"
          /\ ServiceOf(last_done'.path) = AUTH
          /\ last_done'.resp.status \notin {401, 429}
\* Request r's upstream call ends in this step.
Answered(r) == req_pc[r] = "forwarding" /\ req_pc'[r] = "done"
\* The cell of AUTH in the breaker manager.
SuccessCalls(map) == map[AUTH].stats.success_calls
FailureCalls(map) == map[AUTH].stats.failure_calls

\* C1: with the breaker enabled, once failure_threshold consecutive
\* forwarded requests to the service were answered 5xx by the upstream and
\* none is in flight, a request to the service that arrives before the
\* timeout has elapsed is answered 503 "Service unavailable (circuit
\* breaker open)" and is not forwarded.
C1_OpenAfterUpstream5xx ==
    [][\A r \in Requests :
          (/\ settings.CIRCUIT_BREAKER_ENABLED
           /\ run_5xx >= settings.CIRCUIT_BREAKER_FAILURE_THRESHOLD
           /\ now < last_5xx_at + settings.CIRCUIT_BREAKER_TIMEOUT
           /\ \A q \in Requests : req_pc[q] # "forwarding"
           /\ ReachesProxy(r))
          => /\ req_pc'[r] = "done"
             /\ last_done'.resp.status = 503
             /\ last_done'.resp.error =
                    "Service unavailable (circuit breaker open)"]_vars

\* C2: with the breaker enabled, the end of a forwarded request records
\* exactly one outcome in the service's cell: a success for a 2xx/3xx
\* answer, a failure for a connection error, a timeout or a 5xx answer,
\* and no failure for a 4xx answer.
C2_OutcomeClassified ==
    [][\A r \in Requests :
          (settings.CIRCUIT_BREAKER_ENABLED /\ Answered(r))
          => LET o == last_done'.outcome
                 ds == SuccessCalls(breakers') - SuccessCalls(breakers)
                 df == FailureCalls(breakers') - FailureCalls(breakers)
             IN  /\ ds + df = 1
                 /\ (o.kind = "response" /\ o.status < 400) => ds = 1
                 /\ (o.kind # "response" \/ o.status >= 500) => df = 1
                 /\ (o.kind = "response" /\ o.status \in 400..499) => df = 0]_vars

\* ------------------------------------------ properties of the load balancer

\* The tasks whose request_func is running on instance id.
Holders(id) == {t \in Tasks : task_pc[t] = "calling" /\ task[t].instance = id}
\* The ids of the registered instances.
InstanceIds == {services[AUTH][i].id : i \in 1..Len(services[AUTH])}
\* The instances select_instance may return now.
HealthyIds ==
    LET healthy == HealthyInstances(services[AUTH])
    IN  {healthy[i].id : i \in 1..Len(healthy)}

C10_FailedInstanceExcluded ==
    [][\A t \in Tasks :
          (/\ task_pc[t] = "sleeping"
           /\ task_pc'[t] = "calling"
           /\ HealthyIds \ {task[t].instance} # {})
          => task'[t].instance # task[t].instance]_vars

\* ---------------------------------------- properties of route_with_retry

\* The two registered instances of SpecBalancer.
U1 == services[AUTH][1].id
U2 == services[AUTH][2].id
\* The upstream behaves as in the scenario: every forward to u1 times out,
\* u2 answers 200.
ScenarioOutcome(id, outcome) ==
    /\ id = U1 => outcome.kind = "timeout"
    /\ id = U2 => outcome = [kind |-> "response", status |-> 200]
\* Task t, routed by route_with_retry, is answered in this step after a
\* forward.
RoutedAnswered(t) == task_pc[t] = "forwarding" /\ task_pc'[t] = "returned"

\* C11: with retry_count >= 2 and u1, u2 both healthy, u1 timing out and
\* u2 answering 200, a request routed with retry is answered only by the
\* attempt on u2, with 200: a forward to u1 that timed out is followed by
\* another attempt instead of being the answer.
C11_RetriedOnOtherInstance ==
    [][\A t \in Tasks :
          (/\ RoutedAnswered(t)
           /\ settings.LOAD_BALANCER_RETRY_COUNT >= 2
           /\ HealthyIds = {U1, U2}
           /\ ScenarioOutcome(task[t].instance, last_done'.outcome))
          => /\ task[t].instance = U2
             /\ last_done'.resp.status = 200]_vars

\* ------------------------------------------- properties of the registry

\* The ids of the instances of the service that are enabled and HEALTHY.
EnabledHealthyIds ==
    {services[AUTH][i].id : i \in {j \in 1..Len(services[AUTH]) :
        services[AUTH][j].enabled /\ services[AUTH][j].status = "healthy"}}
\* What LoadBalancer.select_instance can return in this state, for every
\* strategy and client address.
SelectResults ==
    UNION {SelectInstance(services[AUTH], AUTH, client_ip, strategy,
                          round_robin_index, connection_counts) :
              strategy \in Strategies, client_ip \in ClientIps}
\* What discover_service can return in this state, for every strategy.
DiscoverResults ==
    UNION {DiscoverService(services, AUTH, strategy, disc_index) :
              strategy \in Strategies \ {"ip_hash"}}
\* A selection result is None exactly when nothing is enabled and HEALTHY,
\* and otherwise an enabled HEALTHY instance.
RightlySelected(sel) ==
    /\ sel.instance = None <=> EnabledHealthyIds = {}
    /\ sel.instance # None =>
          /\ sel.instance.id \in EnabledHealthyIds
          /\ sel.instance.enabled
          /\ sel.instance.status = "healthy"

\* C12: select_instance and discover_service return None if and only if no
\* instance of the service is enabled and HEALTHY, and otherwise an
\* enabled HEALTHY instance; a request for which discovery returns None is
\* answered 503 without an upstream call, any other is forwarded to an
\* enabled HEALTHY instance.
C12_SelectionOnlyHealthy ==
    [][/\ \A sel \in SelectResults \cup DiscoverResults : RightlySelected(sel)
       /\ \A r \in Requests :
             ReachesProxy(r) =>
                IF EnabledHealthyIds = {}
                THEN /\ req_pc'[r] = "done"
                     /\ req'[r].instance = None
                     /\ last_done'.resp.status = 503
                ELSE /\ req_pc'[r] = "forwarding"
                     /\ req'[r].instance \in EnabledHealthyIds]_vars

\* C12 witness: one request was answered 503 for want of an instance and
\* another is being forwarded while some instance is not eligible.
C12_Witness ==
    /\ last_done # None
    /\ last_done.resp.status = 503
    /\ \E r \in Requests :
          /\ req_pc[r] = "forwarding"
          /\ req[r].instance \in EnabledHealthyIds
    /\ \E i \in 1..Len(services[AUTH]) :
          services[AUTH][i].id \notin EnabledHealthyIds

\* C17: for every instance of the registry, status = DISABLED if and only
\* if enabled = false.
C17_DisabledIffNotEnabled ==
    \A name \in DOMAIN services : \A i \in 1..Len(services[name]) :
       services[name][i].status = "disabled" <=> ~services[name][i].enabled

\* The instance whose health GET is in flight, as the registry holds it.
Checked == services[health.service][FirstWithId(services, health.service, health.id)]
\* The same instance after the step.
CheckedAfter == services'[health.service][FirstWithId(services, health.service, health.id)]
\* The status the sweep is to record for an outcome of the GET: HEALTHY for
\* a response with a status code in 200..499, UNHEALTHY otherwise.
ExpectedHealthStatus(outcome) ==
    IF outcome.kind = "response" /\ outcome.status \in 200..499
    THEN "healthy" ELSE "unhealthy"

\* C19: when the health GET of an instance ends, the sweep marks the
\* instance HEALTHY if the outcome is a response with a status code in
\* 200..499, and UNHEALTHY for every other outcome.
C19_HealthyBelow500 ==
    [][\A outcome \in Outcomes :
          HealthResult(outcome) =>
             CheckedAfter.status = ExpectedHealthStatus(outcome)]_vars

\* C20: when the health GET of an instance ends after the instance was
\* disabled, the result is discarded: the instance keeps enabled = false,
\* status DISABLED, its counters and its last-check time stamp.
C20_DisabledMidCheckDiscarded ==
    [][(health # NoHealth /\ health' = NoHealth /\ ~Checked.enabled
          /\ Checked.status = "disabled") =>
            /\ ~CheckedAfter.enabled
            /\ CheckedAfter.status = "disabled"
            /\ CheckedAfter.consecutive_failures = Checked.consecutive_failures
            /\ CheckedAfter.consecutive_successes = Checked.consecutive_successes
            /\ CheckedAfter.last_health_check = Checked.last_health_check]_vars

\* The ids of the instances some selection returns in this state.
SelectedIds ==
    {sel.instance.id :
        sel \in {x \in SelectResults \cup DiscoverResults : x.instance # None}}
\* update_service_status records HEALTHY for the i-th instance in this step.
RecordsHealthy(i) ==
    /\ services'[AUTH][i].status = "healthy"
    /\ services'[AUTH][i].consecutive_successes =
          services[AUTH][i].consecutive_successes + 1

\* The instance whose UNHEALTHY recording no HEALTHY recording has followed.
Evicted == IF rotation.phase = "evicted" THEN {rotation.id} ELSE {}
\* The instances no selection may return: evicted, or with a status of
\* UNHEALTHY or UNKNOWN.
OutOfRotation ==
    Evicted \cup {services[AUTH][i].id : i \in {j \in 1..Len(services[AUTH]) :
                     services[AUTH][j].status \in {"unhealthy", "unknown"}}}

\* C18: after an UNHEALTHY recording for an instance, and until a HEALTHY
\* recording for it, no selection returns the instance and no request is
\* forwarded to it; the same holds while its status is still UNKNOWN.  An
\* instance becomes eligible only in a step that records HEALTHY for it,
\* and a step that records HEALTHY for an enabled instance makes it
\* eligible.
C18_EvictionAndReentry ==
    [][/\ OutOfRotation \cap SelectedIds = {}
       /\ \A r \in Requests :
             ReachesProxy(r) => req'[r].instance \notin OutOfRotation
       /\ \A i \in 1..Len(services[AUTH]) :
             LET id == services[AUTH][i].id
             IN  /\ (id \notin EnabledHealthyIds /\ id \in EnabledHealthyIds') =>
                       RecordsHealthy(i)
                 /\ (RecordsHealthy(i) /\ services'[AUTH][i].enabled) =>
                       /\ id \in EnabledHealthyIds'
                       /\ id \in SelectedIds'
                       /\ id \notin OutOfRotation']_vars

\* C18 witness: an instance was recorded UNHEALTHY, then HEALTHY, and a
\* request that arrived after that is being forwarded to it, while the
\* other instance is enabled and UNHEALTHY.
C18_Witness ==
    /\ rotation.phase = "reselected"
    /\ \E r \in Requests :
          /\ req_pc[r] = "forwarding"
          /\ req[r].instance = rotation.id
    /\ \E i \in 1..Len(services[AUTH]) :
          /\ services[AUTH][i].id # rotation.id
          /\ services[AUTH][i].enabled
          /\ services[AUTH][i].status = "unhealthy"

\* --------------------------------------- properties of the rate limiter

\* The calls recorded for an identifier.
CallsOf(id) == IF id \in DOMAIN calls THEN calls[id] ELSE <<>>
\* The admissions of an identifier by consume: positions in its history.
Admissions(id) ==
    {k \in 1..Len(CallsOf(id)) :
        CallsOf(id)[k].allowed /\ CallsOf(id)[k].fault = "none"}
\* The admissions of id whose time stamp lies in the window of length
\* WINDOW_SECONDS that ends at clock reading t, (t - 60, t].
AdmittedInWindow(id, t) ==
    {k \in Admissions(id) :
        /\ CallsOf(id)[k].t <= t
        /\ t - CallsOf(id)[k].t < WINDOW_SECONDS}

\* C13: under sliding_window, for every identifier and every window of 60
\* seconds (t - 60, t], a time stamp exactly 60 s old being outside it,
\* the admissions stamped within the window are at most
\* requests_per_minute.
C13_SlidingWindowBound ==
    settings.RATE_LIMIT_STRATEGY = "sliding_window" =>
       \A id \in Identifiers, t \in ClockReadings :
          Cardinality(AdmittedInWindow(id, t))
             <= settings.RATE_LIMIT_REQUESTS_PER_MINUTE

\* C13 witness: an identifier used up its limit at 0, was rejected at 59
\* and admitted again at 60, when the stamps of 0 were evicted.
C13_Witness ==
    /\ settings.RATE_LIMIT_STRATEGY = "sliding_window"
    /\ \E id \in Identifiers :
          /\ Len(CallsOf(id)) = 3
          /\ \A k \in 1..3 : CallsOf(id)[k].fault = "none"
          /\ CallsOf(id)[1].t = 0 /\ CallsOf(id)[1].allowed
          /\ CallsOf(id)[2].t = 59 /\ ~CallsOf(id)[2].allowed
          /\ CallsOf(id)[3].t = 60 /\ CallsOf(id)[3].allowed

\* Identifier id makes a call without fault in this step.
Consumes(id) ==
    /\ id \in DOMAIN calls'
    /\ Len(calls'[id]) = Len(CallsOf(id)) + 1
    /\ calls'[id][Len(calls'[id])].fault = "none"
\* The token count, in sixtieths, the bucket of id holds before the call
\* once refilled at the clock reading of the call: a fresh bucket is full.
RefilledTokens60(id) ==
    LET burst == settings.RATE_LIMIT_BURST_SIZE
        had == IF id \in DOMAIN limiter.buckets
               THEN limiter.buckets[id].tokens60
                    + (now - limiter.buckets[id].last_update)
                         * settings.RATE_LIMIT_REQUESTS_PER_MINUTE
               ELSE burst * 60
    IN  IF had > burst * 60 THEN burst * 60 ELSE had

\* C14: token bucket consume(n) refills by elapsed * rate clamped to
\* burst, then returns true and deducts exactly n if and only if the count
\* is at least n, and otherwise returns false and deducts nothing; two
\* consume(burst) of a fresh bucket at one clock reading return true, then
\* false.
C14_TokenBucketConsume ==
    [][settings.RATE_LIMIT_STRATEGY = "token_bucket" =>
         \A id \in Identifiers :
            Consumes(id) =>
               LET call == calls'[id][Len(calls'[id])]
                   have == RefilledTokens60(id)
                   burst == settings.RATE_LIMIT_BURST_SIZE
               IN  /\ call.allowed <=> have >= call.tokens * 60
                   /\ limiter'.buckets[id].tokens60 =
                         IF call.allowed THEN have - call.tokens * 60 ELSE have
                   /\ limiter'.buckets[id].last_update = now
                   /\ (/\ Len(calls'[id]) = 2
                       /\ calls'[id][1].fault = "none"
                       /\ calls'[id][1].tokens = burst
                       /\ call.tokens = burst
                       /\ calls'[id][1].t = call.t)
                      => calls'[id][1].allowed /\ ~call.allowed]_vars

\* C14 witness: a fresh bucket answered consume(burst) with true, then at
\* the same clock reading with false, and a later call was admitted after
\* the refill.
C14_Witness ==
    /\ settings.RATE_LIMIT_STRATEGY = "token_bucket"
    /\ \E id \in Identifiers :
          /\ Len(CallsOf(id)) = 3
          /\ \A k \in 1..3 : CallsOf(id)[k].fault = "none"
          /\ \A k \in 1..2 : CallsOf(id)[k].tokens = settings.RATE_LIMIT_BURST_SIZE
          /\ CallsOf(id)[1].t = CallsOf(id)[2].t
          /\ CallsOf(id)[1].allowed /\ ~CallsOf(id)[2].allowed
          /\ CallsOf(id)[3].t > CallsOf(id)[2].t /\ CallsOf(id)[3].allowed

RECURSIVE AloneAfter(_, _)
\* The limiter after the first k calls of id, made at their clock readings
\* on a limiter no other identifier ever called.
AloneAfter(id, k) ==
    IF k = 0 THEN NewLimiter
    ELSE IsAllowed(AloneAfter(id, k - 1), settings, id, CallsOf(id)[k].tokens,
                   CallsOf(id)[k].fault, CallsOf(id)[k].t).limiter
\* The verdict of the k-th call of id in that run.
AloneVerdict(id, k) ==
    IsAllowed(AloneAfter(id, k - 1), settings, id, CallsOf(id)[k].tokens,
              CallsOf(id)[k].fault, CallsOf(id)[k].t).allowed
\* The dict in use.
Dict(lim) == lim[DictOf(settings.RATE_LIMIT_STRATEGY)]

\* C15: for any interleaving of the calls of several identifiers, the
\* verdicts of each identifier are those its calls get when they run alone
\* at the same clock readings, and its bucket is the bucket of that run:
\* no call reads or writes the bucket of another identifier.
C15_PerIdentityIsolation ==
    \A id \in Identifiers :
       /\ \A k \in 1..Len(CallsOf(id)) :
             CallsOf(id)[k].allowed = AloneVerdict(id, k)
       /\ id \in DOMAIN Dict(limiter) <=>
             id \in DOMAIN Dict(AloneAfter(id, Len(CallsOf(id))))
       /\ id \in DOMAIN Dict(limiter) =>
             Dict(limiter)[id] = Dict(AloneAfter(id, Len(CallsOf(id))))[id]
       /\ DOMAIN Dict(limiter) \subseteq Identifiers

\* C15 witness: one identifier was admitted and then rejected, and the
\* other was admitted afterwards.
C15_Witness ==
    /\ Len(CallsOf("1.2.3.4")) = 2
    /\ Len(CallsOf("5.6.7.8")) = 1
    /\ \A id \in Identifiers : \A k \in 1..Len(CallsOf(id)) :
          CallsOf(id)[k].fault = "none"
    /\ CallsOf("1.2.3.4")[1].allowed
    /\ ~CallsOf("1.2.3.4")[2].allowed
    /\ CallsOf("5.6.7.8")[1].allowed
    /\ CallsOf("5.6.7.8")[1].t > CallsOf("1.2.3.4")[2].t
    /\ CallsOf("5.6.7.8")[1].t - CallsOf("1.2.3.4")[1].t < WINDOW_SECONDS

\* C16: a call in which the bucket lookup, the bucket creation or consume
\* raises an exception returns true: it completes with the verdict
\* "allowed" instead of an exception.
C16_FailOpen ==
    \A id \in Identifiers : \A k \in 1..Len(CallsOf(id)) :
       CallsOf(id)[k].fault # "none" => CallsOf(id)[k].allowed

\* C16 witness: an identifier was admitted, then rejected, and its next
\* call, at the same clock reading and with a fault, was admitted.
C16_Witness ==
    \E id \in Identifiers :
       /\ Len(CallsOf(id)) = 3
       /\ CallsOf(id)[1].fault = "none" /\ CallsOf(id)[1].allowed
       /\ CallsOf(id)[2].fault = "none" /\ ~CallsOf(id)[2].allowed
       /\ CallsOf(id)[3].fault # "none" /\ CallsOf(id)[3].allowed
       /\ CallsOf(id)[3].t = CallsOf(id)[2].t

\* ------------------------------ properties of the registry's life cycle

\* A registry call is made in this step.
Calls(op) == returned'.seq # returned.seq /\ returned'.op = op
\* update_service_status is called in this step, by the sweep or not.
CallsUpdate == Calls("update_service_status") \/ Calls("_perform_health_checks")

\* C21: a call of update_service_status with a service name or an instance
\* id that is not registered returns false and leaves the services map
\* unchanged, also when the sweep makes the call for an instance that was
\* unregistered during its GET.
C21_UpdateOfUnregisteredIsNoOp ==
    [][(CallsUpdate /\ FirstWithId(services, returned'.name, returned'.id) = 0) =>
          /\ ~returned'.value
          /\ services' = services]_vars

\* C21 witness: the sweep's update returned false, for an instance
\* unregistered during the GET, while the service has another instance.
C21_Witness ==
    /\ returned.op = "_perform_health_checks"
    /\ ~returned.value
    /\ returned.name \in DOMAIN services
    /\ FirstWithId(services, returned.name, returned.id) = 0

\* C22: in every registry state, register_service followed at once by
\* unregister_service with the id returned gives true and the registry as
\* it was before the register_service.
C22_RegisterUnregisterRoundTrip ==
    \A name \in LifecycleNames, url \in LifecycleUrls :
       LET registered == RegisterService(services, name, url, "/", 1, now)
           id == RegisterReturns(name, url, now)
       IN  /\ UnregisterReturns(registered, name, id)
           /\ UnregisterService(registered, name, id) = services

\* The ids of the instances registered.
RegisteredIds ==
    UNION {{services[name][i].id : i \in 1..Len(services[name])} :
              name \in DOMAIN services}

\* C23: register_service returns an id that no instance registered before
\* has.
C23_FreshId ==
    [][Calls("register_service") => returned'.id \notin RegisteredIds]_vars

\* C24: no service name maps to an empty list; unregister_service of the
\* last instance of a service deletes the entry of the service in the same
\* step, and unregister_service of an unknown service or id returns false
\* and changes nothing.
C24_NoEmptyService ==
    [][/\ \A name \in DOMAIN services : Len(services[name]) > 0
       /\ \A name \in DOMAIN services' : Len(services'[name]) > 0
       /\ Calls("unregister_service") =>
             IF FirstWithId(services, returned'.name, returned'.id) = 0
             THEN ~returned'.value /\ services' = services
             ELSE /\ returned'.value
                  /\ Len(services[returned'.name]) = 1 =>
                        returned'.name \notin DOMAIN services'
                  /\ Len(services[returned'.name]) > 1 =>
                        Len(services'[returned'.name]) =
                           Len(services[returned'.name]) - 1]_vars

\* C24 witness: the last instance of a service was unregistered and the
\* entry of the service is gone, while the other service is registered.
C24_Witness ==
    /\ returned.op = "unregister_service"
    /\ returned.value
    /\ returned.name \notin DOMAIN services
    /\ DOMAIN services # {}

\* ------------------------------------ properties of weighted selection

\* The healthy set of the service: what the weighted strategy chooses from.
HealthySet ==
    IF AUTH \in DOMAIN services
    THEN HealthyInstances(GetService(services, AUTH)) ELSE <<>>
\* Every instance of the healthy set has weight 0.
AllZero == \A i \in 1..Len(HealthySet) : HealthySet[i].weight = 0
\* The instances the weighted strategy can return in this state, for
\* every draw: ServiceDiscovery._weighted_select and LoadBalancer._weighted.
WeightedResults ==
    {sel.instance : sel \in DiscoverService(services, AUTH, "weighted", disc_index)}
    \cup {sel.instance :
             sel \in SelectInstance(HealthySet, AUTH, "", "weighted",
                                    round_robin_index, connection_counts)}
\* An instance the weighted strategy may return by the rule: a weight-0
\* instance only when all weights are 0, and then the first of the list.
RightlyWeighted(instance) ==
    /\ instance.weight = 0 => AllZero
    /\ AllZero => instance = HealthySet[1]

\* C25: weighted selection returns a weight-0 instance only when every
\* instance of the healthy set has weight 0, and then the first one of the
\* list; a request is forwarded accordingly.
C25_WeightZeroSkipped ==
    [][/\ \A instance \in WeightedResults \ {None} : RightlyWeighted(instance)
       /\ \A r \in Requests :
             (ReachesProxy(r) /\ req_pc'[r] = "forwarding") =>
                RightlyWeighted(
                   services[AUTH][FirstWithId(services, AUTH, req'[r].instance)])]_vars

\* ------------------------------------------ properties of the pipeline

\* Request r arrives in this step: the middleware runs for it.
Arrives(r) == req_pc[r] = "new" /\ req_pc'[r] # "new"
\* The body of the 503 that proxy_request gives for CircuitBreakerOpenError.
BreakerOpenError == "Service unavailable (circuit breaker open)"
\* The request that arrives in this step is answered at once, no instance
\* is selected for it and no upstream call is pending for it.
EndsAtOnce(r) ==
    /\ req_pc'[r] = "done"
    /\ req'[r] = NewRequest
    /\ disc_index' = disc_index
    /\ UNCHANGED balancerVars
\* No cell is created and no cell's counters change in this step.
CountersKept ==
    /\ DOMAIN breakers' = DOMAIN breakers
    /\ \A name \in DOMAIN breakers :
          /\ breakers'[name].stats = breakers[name].stats
          /\ breakers'[name].half_open_calls = breakers[name].half_open_calls
          /\ breakers'[name].state = breakers[name].state

\* C26: a request the rate limiter rejects is answered 429 and a request
\* the breaker rejects is answered 503, in the step in which it arrives;
\* no instance is selected, no upstream call is made, the breaker counters
\* and the connection counts stay as they are, and nothing runs for the
\* request afterwards.  A request the rate limiter rejects does not reach
\* the breaker, whatever the state of the cell.
C26_RejectionsTerminal ==
    [][\A r \in Requests :
          /\ \A path \in Paths :
                /\ RequestArrives(r, path, TRUE, FALSE) =>
                      /\ last_done'.resp.status = 429
                      /\ EndsAtOnce(r)
                      /\ breakers' = breakers
                /\ ( /\ RequestArrives(r, path, TRUE, TRUE)
                     /\ ServiceOf(path) \in DOMAIN breakers
                     /\ ~CanExecute(breakers[ServiceOf(path)], now).ok ) =>
                      /\ last_done'.resp.status = 503
                      /\ last_done'.resp.error = BreakerOpenError
                      /\ EndsAtOnce(r)
                      /\ CountersKept
          /\ (Arrives(r) /\ req_pc'[r] = "done"
                /\ last_done'.resp.error = BreakerOpenError) =>
                breakers[ServiceOf(last_done'.path)].state # "closed"
          /\ req_pc[r] = "done" => (req_pc'[r] = "done" /\ req'[r] = req[r])]_vars

\* C26 witness: the request answered last was rejected by the cell, which
\* is OPEN, and the request before it was forwarded.
C26_Witness ==
    /\ last_done # None
    /\ last_done.resp.status = 503
    /\ last_done.resp.error = BreakerOpenError
    /\ AUTH \in DOMAIN breakers
    /\ breakers[AUTH].state = "open"
    /\ req_pc[1] = "forwarding"
    /\ req_pc[2] = "done"

\* The "error" fields of the bodies the gateway itself writes.
GatewayErrors ==
    {"Unauthorized", "Too many requests", "Invalid path", "Service not available",
     "Service error", "Failed to forward request", BreakerOpenError}

\* C27: every error response the gateway produces carries the request's
\* correlation id in the X-Request-ID header and in the request_id field
\* of its JSON body.
C27_CorrelationIdOnErrors ==
    (last_done # None /\ last_done.resp.error \in GatewayErrors) =>
        (last_done.resp.header_id /\ last_done.resp.body_id)

\* No error response of the gateway carries the id in both places: the
\* middleware's own responses lack the header, the others the body field.
NoErrorCarriesBoth ==
    (last_done # None /\ last_done.resp.error \in GatewayErrors) =>
        (last_done.resp.header_id # last_done.resp.body_id)

\* The request that arrives in this step touches no breaker cell, selects
\* no instance and contacts no upstream.
NothingTouched(r) ==
    /\ breakers' = breakers
    /\ EndsAtOnce(r)

\* C28: a request that passes the middleware and whose path has no service
\* segment is answered 400, with the breaker enabled or disabled, and no
\* breaker cell is created, no instance selected, no upstream contacted.
C28_NoServiceIs400 ==
    [][\A r \in Requests, path \in Paths :
          ( /\ RequestArrives(r, path, TRUE, TRUE)
            /\ ParsePath(path, settings).service = None ) =>
              /\ last_done'.resp.status = 400
              /\ NothingTouched(r)]_vars

\* What the code does for such a request: 400 with the breaker disabled,
\* the handler's implicit None (200, body null) with it enabled, and in
\* both cases nothing else is touched.
NoServiceAnswer ==
    [][\A r \in Requests, path \in Paths :
          ( /\ RequestArrives(r, path, TRUE, TRUE)
            /\ ParsePath(path, settings).service = None ) =>
              /\ last_done'.resp.status =
                    IF settings.CIRCUIT_BREAKER_ENABLED THEN 200 ELSE 400
              /\ NothingTouched(r)]_vars

\* ------------------------------------------------ properties of the locks

\* The tasks suspended on an outbound HTTP call: a proxy forward, the
\* sweep's GET, a request_func of retry_request.
OnUpstream ==
    {<<"request", r>> : r \in {q \in Requests : req_pc[q] = "forwarding"}}
    \cup {<<"task", t>> : t \in {q \in Tasks : task_pc[q] \in {"calling", "forwarding"}}}
    \cup (IF health # NoHealth THEN {Sweep} ELSE {})

\* C29: a task suspended on an outbound HTTP call holds none of the
\* gateway's locks.
C29_NoLockAcrossHttp == \A w \in OnUpstream : held[w] = {}

\* C29 witness: a request forwarded through the breaker's cell, the
\* sweep's GET and a request_func of retry_request are in flight together.
C29_Witness ==
    /\ settings.CIRCUIT_BREAKER_ENABLED
    /\ settings.LOAD_BALANCER_STRATEGY = "round_robin"
    /\ req_pc[1] = "forwarding"
    /\ health # NoHealth
    /\ task_pc[1] = "calling"
    /\ call_pc[1] = "running"
    /\ Cardinality(OnUpstream) >= 3

\* ------------------------------------------- properties of retry_request

\* retry_request is over for task t.
Over(t) == task_pc[t] \in {"returned", "raised", "cancelled"}
\* Task t's retry_request awaits request_func from this step on.
Invokes(t) == task_pc[t] # "calling" /\ task_pc'[t] = "calling"

\* The steps of retry_request: request_func is invoked with a loop index
\* below retry_count that grows from one invocation to the next; the sleep
\* is entered only from a failed invocation that is not the last one, and
\* left only for the next iteration; a returned result ends the call; the
\* raise carries the last error, or the generic one when request_func was
\* never invoked.
RetrySteps ==
    \A t \in Tasks :
        /\ Invokes(t) =>
              /\ task'[t].attempt < settings.LOAD_BALANCER_RETRY_COUNT
              /\ task_pc[t] \in {"new", "sleeping"}
              /\ task_pc[t] = "new" => task'[t].attempt = 0
              /\ task_pc[t] = "sleeping" => task'[t].attempt = task[t].attempt + 1
        /\ (task_pc[t] # "sleeping" /\ task_pc'[t] = "sleeping") =>
              /\ RequestFuncRaises(t)
              /\ task[t].attempt < settings.LOAD_BALANCER_RETRY_COUNT - 1
        /\ (task_pc[t] = "sleeping" /\ task_pc'[t] # "sleeping") =>
              (SleepEnds(t) \/ TaskCancelled(t))
        /\ RequestFuncReturns(t) => task_pc'[t] = "returned"
        /\ Over(t) => (task_pc'[t] = task_pc[t] /\ task'[t] = task[t])
        /\ (task_pc[t] # "raised" /\ task_pc'[t] = "raised") =>
              /\ task_pc[t] = "new" => ~task'[t].last_error
              /\ task_pc[t] \in {"calling", "sleeping"} => task'[t].last_error
              /\ task_pc[t] = "calling" =>
                    task[t].attempt = settings.LOAD_BALANCER_RETRY_COUNT - 1

\* C30: retry_request terminates: request_func is invoked at most
\* retry_count times, the sleep comes only between a failed attempt and
\* the next one, the result of the first attempt that does not raise is
\* returned without further attempts, otherwise the last error is raised
\* (the generic one when no instance was selected in any attempt), and
\* every call that has started is eventually over.
C30_RetryTerminates ==
    /\ [][RetrySteps]_vars
    /\ \A t \in Tasks : (task_pc[t] \in {"calling", "sleeping"}) ~> Over(t)

\* C30 witness: with three attempts allowed, one task has raised the last
\* error after its third failed attempt and the other has returned a
\* result on a later attempt than its first.
C30_Witness ==
    /\ settings.LOAD_BALANCER_RETRY_COUNT = 3
    /\ task_pc[1] = "raised"
    /\ task[1].attempt = 2
    /\ task[1].last_error
    /\ task_pc[2] = "returned"
    /\ task[2].attempt > 0

\* ------------------------------------------ properties of round-robin

\* LoadBalancer.round_robin_index for the service before and after a step.
BalancerIndex == GetOr0(round_robin_index, AUTH)
BalancerIndexAfter == GetOr0(round_robin_index', AUTH)
\* The healthy set a select of this step reads.
Snapshot == HealthyInstances(services[AUTH])

\* C31: under round-robin the balancer's index of the service never
\* decreases, every select advances it by exactly one, and the instance
\* returned is snapshot[index mod size] for the snapshot that select read.
C31_IndexMonotonic ==
    [][/\ BalancerIndexAfter >= BalancerIndex
       /\ \A t \in Tasks :
             Invokes(t) =>
                /\ BalancerIndexAfter = BalancerIndex + 1
                /\ task'[t].instance =
                      Snapshot[(BalancerIndex % Len(Snapshot)) + 1].id]_vars

\* What _round_robin does: the index is reduced modulo the size of the
\* snapshot before it is advanced and stored, so the stored value stays
\* within 1..size and falls back at every wrap.
RoundRobinStoresReduced ==
    [][\A t \in Tasks :
          Invokes(t) =>
             /\ BalancerIndexAfter = (BalancerIndex % Len(Snapshot)) + 1
             /\ task'[t].instance =
                   Snapshot[(BalancerIndex % Len(Snapshot)) + 1].id]_vars

\* The ids returned by k selects in a row on the same list, from the
\* stored index on: through ServiceDiscovery._round_robin_select ...
RECURSIVE DiscoveryPicks(_, _, _)
DiscoveryPicks(instances, index, k) ==
    IF k = 0 THEN <<>>
    ELSE LET c == CHOOSE c \in DiscoverySelect(instances, AUTH, "round_robin",
                                               index) : TRUE
         IN  <<c.instance.id>> \o DiscoveryPicks(instances, c.index, k - 1)
\* ... and through LoadBalancer._round_robin.
RECURSIVE BalancerPicks(_, _, _)
BalancerPicks(instances, index, k) ==
    IF k = 0 THEN <<>>
    ELSE LET c == CHOOSE c \in SelectByStrategy(instances, AUTH, "",
                                                "round_robin", index,
                                                EmptyMap) : TRUE
         IN  <<c.instance.id>> \o BalancerPicks(instances, c.index, k - 1)
\* The place of id in the list.
PlaceOf(instances, id) == CHOOSE i \in 1..Len(instances) : instances[i].id = id
\* picks go round the list in its order, and every n picks in a row hold
\* each instance once.
GoesRound(instances, picks) ==
    LET n == Len(instances)
    IN  /\ \A j \in 1..(Len(picks) - 1) :
              PlaceOf(instances, picks[j + 1]) =
                 (PlaceOf(instances, picks[j]) % n) + 1
        /\ \A j \in 1..(Len(picks) - n + 1) :
              {picks[j + d] : d \in 0..(n - 1)} =
                 {instances[i].id : i \in 1..n}

\* The selects that follow the stored index on the healthy set go round.
NextSelectsGoRound ==
    LET snapshot == IF AUTH \in DOMAIN services THEN Snapshot ELSE <<>>
        n == Len(snapshot)
    IN  n > 0 =>
           /\ GoesRound(snapshot, DiscoveryPicks(snapshot, disc_index, 2 * n))
           /\ GoesRound(snapshot, BalancerPicks(snapshot, disc_index, 2 * n))
           /\ n = 1 => DiscoveryPicks(snapshot, disc_index, 2) =
                          <<snapshot[1].id, snapshot[1].id>>
\* A request forwarded under round-robin goes to the first of those
\* selects, and the index it leaves is the one the next select starts from.
ForwardTakesNextSelect ==
    \A r \in Requests :
        (Arrives(r) /\ req_pc'[r] = "forwarding"
           /\ settings.LOAD_BALANCER_STRATEGY = "round_robin") =>
            /\ req'[r].instance = DiscoveryPicks(Snapshot, disc_index, 1)[1]
            /\ DiscoveryPicks(Snapshot, disc_index', 1) =
                  SubSeq(DiscoveryPicks(Snapshot, disc_index, 2), 2, 2)

\* C32: under round-robin with a healthy set of n instances that stays as
\* it is, selects in a row (each one atomic, whoever calls) go round the
\* list in its order from where the previous select left off, so any n of
\* them in a row return each instance exactly once; with one instance
\* every select returns it.
C32_RoundRobinGoesRound ==
    /\ []NextSelectsGoRound
    /\ [][ForwardTakesNextSelect]_vars

\* C32 witness: three healthy instances, round-robin, and the two requests
\* that arrived were forwarded to the first and to the second of them.
C32_Witness ==
    /\ settings.LOAD_BALANCER_STRATEGY = "round_robin"
    /\ AUTH \in DOMAIN services
    /\ Len(Snapshot) = 3
    /\ req_pc[1] = "forwarding" /\ req[1].instance = Snapshot[1].id
    /\ req_pc[2] = "forwarding" /\ req[2].instance = Snapshot[2].id
    /\ GetOr0(disc_index, AUTH) = 2

\* ------------------------------------- properties of least-connections

\* The requests forwarded to instance id whose upstream call has not ended.
InFlight(id) ==
    Cardinality({q \in Requests : req_pc[q] = "forwarding" /\ req[q].instance = id})

\* C33: under least-connections a request on the proxy route is forwarded
\* to an instance of the healthy set whose in-flight count is minimal, the
\* first such instance in list order.
C33_LeastConnections ==
    [][\A r \in Requests :
          (Arrives(r) /\ req_pc'[r] = "forwarding"
             /\ settings.LOAD_BALANCER_STRATEGY = "least_connections") =>
              LET place == PlaceOf(Snapshot, req'[r].instance)
              IN  /\ \A i \in 1..Len(Snapshot) :
                        InFlight(Snapshot[place].id) <= InFlight(Snapshot[i].id)
                  /\ \A i \in 1..(place - 1) :
                        InFlight(Snapshot[i].id) > InFlight(Snapshot[place].id)]_vars

\* What discovery does: active_connections is read from instance.metadata,
\* which nothing writes, so the first healthy instance is returned always.
LeastConnectionsIsFirst ==
    [][\A r \in Requests :
          (Arrives(r) /\ req_pc'[r] = "forwarding"
             /\ settings.LOAD_BALANCER_STRATEGY = "least_connections") =>
              req'[r].instance = Snapshot[1].id]_vars

\* --------------------------------------- properties of the fixed window

\* The window of id before a call: the one in the dict, or the one the
\* call creates.
WindowOf(id) ==
    IF id \in DOMAIN limiter.fixed_windows THEN limiter.fixed_windows[id]
    ELSE [requests |-> settings.RATE_LIMIT_REQUESTS_PER_MINUTE,
          window_seconds |-> WINDOW_SECONDS, count |-> 0, window_start |-> now]
\* The window of id is at least 60 seconds old at this clock reading.
Expired(id) == now - WindowOf(id).window_start >= WINDOW_SECONDS

\* C34: under fixed_window the counter of an identity never exceeds rpm; a
\* call is admitted iff counter + tokens <= rpm, the counter being the one
\* left by the window-expiry reset; an admitted call adds its tokens, a
\* rejected call adds nothing; and the counter goes down (to 0) only in a
\* call that arrives at least 60 seconds after the start of the window.
C34_FixedWindowCounter ==
    [][settings.RATE_LIMIT_STRATEGY = "fixed_window" =>
         /\ \A id \in DOMAIN limiter.fixed_windows :
               limiter'.fixed_windows[id].count < limiter.fixed_windows[id].count
                  => /\ Expired(id)
                     /\ id \in DOMAIN calls'
                     /\ Len(calls'[id]) = Len(CallsOf(id)) + 1
         /\ \A id \in DOMAIN limiter'.fixed_windows :
               limiter'.fixed_windows[id].count
                  <= settings.RATE_LIMIT_REQUESTS_PER_MINUTE
         /\ \A id \in Identifiers :
               Consumes(id) =>
                  LET call == calls'[id][Len(calls'[id])]
                      base == IF Expired(id) THEN 0 ELSE WindowOf(id).count
                      after == limiter'.fixed_windows[id]
                  IN  /\ call.allowed <=>
                            base + call.tokens
                               <= settings.RATE_LIMIT_REQUESTS_PER_MINUTE
                      /\ after.count =
                            IF call.allowed THEN base + call.tokens ELSE base
                      /\ after.window_start =
                            IF Expired(id) THEN now
                            ELSE WindowOf(id).window_start]_vars

\* C34 witness: an identity used up its limit at 0, was rejected at 59 and
\* admitted at 60 by the window that the call of 60 started.
C34_Witness ==
    /\ settings.RATE_LIMIT_STRATEGY = "fixed_window"
    /\ \E id \in Identifiers :
          /\ Len(CallsOf(id)) = 3
          /\ \A k \in 1..3 : CallsOf(id)[k].fault = "none"
          /\ CallsOf(id)[1].t = 0 /\ CallsOf(id)[1].allowed
          /\ CallsOf(id)[1].tokens = settings.RATE_LIMIT_REQUESTS_PER_MINUTE
          /\ CallsOf(id)[2].t = 59 /\ ~CallsOf(id)[2].allowed
          /\ CallsOf(id)[3].t = 60 /\ CallsOf(id)[3].allowed
          /\ limiter.fixed_windows[id].window_start = 60
          /\ limiter.fixed_windows[id].count = CallsOf(id)[3].tokens

\* -------------------------------------- properties of the leaky bucket

\* The leaky bucket of id before its k-th call (k >= 2).
LeakyBefore(id, k) == AloneAfter(id, k - 1).leaky_buckets[id]
\* Entries left the queue in the k-th call of id.
Leaked(id, k) ==
    /\ k >= 2
    /\ CallsOf(id)[k].fault # "key"
    /\ LeakyLeak(LeakyBefore(id, k), CallsOf(id)[k].t).queue
          # LeakyBefore(id, k).queue
RECURSIVE LastLeak(_, _)
\* The clock reading of the last of the first k calls of id in which
\* entries left the queue; that of the first call, which creates the
\* bucket, when there was none.
LastLeak(id, k) ==
    IF k <= 1 THEN CallsOf(id)[1].t
    ELSE IF Leaked(id, k) THEN CallsOf(id)[k].t
    ELSE LastLeak(id, k - 1)

\* No queue holds more than burst entries.
QueueWithinBurst ==
    \A id \in DOMAIN limiter.leaky_buckets :
        Len(limiter.leaky_buckets[id].queue) <= settings.RATE_LIMIT_BURST_SIZE

\* C35: under leaky_bucket no queue holds more than burst entries, and an
\* identity whose queue is full is admitted with one token once 1/rate
\* seconds have passed since the last leak, however often it called
\* consume in between.
C35_LeakIndependentOfCalls ==
    settings.RATE_LIMIT_STRATEGY = "leaky_bucket" =>
       /\ QueueWithinBurst
       /\ \A id \in Identifiers : \A k \in 2..Len(CallsOf(id)) :
             ( /\ \A j \in 1..k : CallsOf(id)[j].fault = "none"
               /\ CallsOf(id)[k].tokens = 1
               /\ Len(LeakyBefore(id, k).queue) = settings.RATE_LIMIT_BURST_SIZE
               /\ (CallsOf(id)[k].t - LastLeak(id, k - 1))
                     * settings.RATE_LIMIT_REQUESTS_PER_MINUTE >= 60 )
             => CallsOf(id)[k].allowed

\* What consume does: the entries that leave the queue are counted from
\* the previous call of the identity, whether or not that call let any
\* entry leave, and the fraction of an entry due at that call is dropped.
LeakCountsFromPreviousCall ==
    settings.RATE_LIMIT_STRATEGY = "leaky_bucket" =>
       /\ QueueWithinBurst
       /\ \A id \in Identifiers : \A k \in 2..Len(CallsOf(id)) :
             (\A j \in 1..k : CallsOf(id)[j].fault = "none") =>
                /\ LeakyBefore(id, k).last_leak = CallsOf(id)[k - 1].t
                /\ ( /\ Len(LeakyBefore(id, k).queue) = settings.RATE_LIMIT_BURST_SIZE
                     /\ (CallsOf(id)[k].t - CallsOf(id)[k - 1].t)
                           * settings.RATE_LIMIT_REQUESTS_PER_MINUTE < 60 )
                   => ~CallsOf(id)[k].allowed


\* ---------------------------------------------------------------------------
\* Consecutive counters of an instance (src/gateway/config/service_registry.py)
\* ---------------------------------------------------------------------------

SameCounters(old, new) ==
    /\ new.consecutive_failures = old.consecutive_failures
    /\ new.consecutive_successes = old.consecutive_successes

\* What update_service_status(AUTH, id, status) does to the counters: the
\* first instance carrying the id is updated, every other instance is kept.
CountersAfterUpdate(id, status) ==
    LET k == FirstWithId(services, AUTH, id)
    IN  /\ Len(services'[AUTH]) = Len(services[AUTH])
        /\ \A j \in 1..Len(services[AUTH]) :
              LET old == services[AUTH][j]
                  new == services'[AUTH][j]
              IN  IF j # k THEN SameCounters(old, new)
                  ELSE IF status = "healthy"
                       THEN /\ new.consecutive_failures = 0
                            /\ new.consecutive_successes =
                                   old.consecutive_successes + 1
                       ELSE /\ new.consecutive_successes = 0
                            /\ new.consecutive_failures =
                                   old.consecutive_failures + 1

\* register_service, enable_service and disable_service: the instances that
\* exist keep their counters and a new instance starts with both at zero.
CountersLeftAlone ==
    /\ Len(services'[AUTH]) >= Len(services[AUTH])
    /\ \A j \in 1..Len(services'[AUTH]) :
          IF j <= Len(services[AUTH])
          THEN SameCounters(services[AUTH][j], services'[AUTH][j])
          ELSE /\ services'[AUTH][j].consecutive_failures = 0
               /\ services'[AUTH][j].consecutive_successes = 0

NeverBothPositive ==
    \A j \in 1..Len(services[AUTH]) :
        ~(/\ services[AUTH][j].consecutive_failures > 0
          /\ services[AUTH][j].consecutive_successes > 0)

CounterSteps ==
    /\ \A i \in 1..Len(BalancerUrls), status \in Statuses :
          UpdateStatus(i, status)
              => CountersAfterUpdate(services[AUTH][i].id, status)
    /\ \A outcome \in Outcomes :
          HealthResult(outcome)
              => CountersAfterUpdate(health.id, HealthStatus(outcome))
    /\ Register => CountersLeftAlone
    /\ \A i \in 1..Len(BalancerUrls) :
          (Disable(i) \/ Enable(i)) => CountersLeftAlone

\* C36: an instance never has consecutive_failures and consecutive_successes
\* both positive: a HEALTHY update sets consecutive_failures to 0 and adds one
\* to consecutive_successes, an update with any other status sets
\* consecutive_successes to 0 and adds one to consecutive_failures, and
\* register, enable and disable leave both counters as they are.
C36_CountersExclusive == []NeverBothPositive /\ [][CounterSteps]_vars

\* An instance was found healthy twice in a row, and another one, which has
\* failed a check, was disabled afterwards and kept its failure count.
C36_Witness ==
    \E i, j \in 1..Len(services[AUTH]) :
        /\ services[AUTH][i].consecutive_successes = MaxRechecks
        /\ services[AUTH][i].consecutive_failures = 0
        /\ ~services[AUTH][j].enabled
        /\ services[AUTH][j].consecutive_failures > 0
        /\ services[AUTH][j].consecutive_successes = 0


\* ---------------------------------------------------------------------------
\* SpecTick: the health-check loop iterating the live registry
\* (src/gateway/config/service_registry.py, _health_check_loop and
\* _perform_health_checks) while register_service and unregister_service run
\* ---------------------------------------------------------------------------

\* The urls and names the interleaved calls register.
TickUrls == {BalancerUrls[1], BalancerUrls[2]}
TickNames == {AUTH, MODEL}

\* The loop between two ticks. The fields of `health` in this specification:
\* service, inner and stale are the list iterator of `for instance in
\* instances` (the list object it walks, its index, and whether that object
\* was deleted from the dict); left, visited, size and changed are the dict
\* iterator of `for service_name, instances in self.services.items()`; id is
\* the instance whose GET is awaited. whole, checked and touched are history:
\* the ids registered and enabled since the tick began, the ids whose result
\* update_service_status recorded, and whether a call interleaved.
TickIdle ==
    [service |-> None, id |-> None, phase |-> "sleeping", left |-> <<>>,
     visited |-> {}, size |-> 0, inner |-> 0, changed |-> FALSE,
     stale |-> FALSE, whole |-> {}, checked |-> <<>>, touched |-> FALSE]

\* The orders a dict can hold the keys S in.
Orders(S) ==
    {q \in [1..Cardinality(S) -> S] :
        \A i, j \in 1..Cardinality(S) : i # j => q[i] # q[j]}

\* The list iterator's next enabled item after index `inner` (0: none);
\* `if not instance.enabled: continue`.
FirstEnabledAfter(list, inner) ==
    LET ks == {k \in (inner + 1)..Len(list) : list[k].enabled}
    IN  IF ks = {} THEN 0 ELSE CHOOSE k \in ks : \A j \in ks : k <= j

EnabledIds(map) ==
    UNION {{map[n][i].id : i \in {k \in 1..Len(map[n]) : map[n][k].enabled}} :
              n \in DOMAIN map}

\* _perform_health_checks runs from where it is to its next await (the GET
\* for an instance) or to its end; no other task runs in between. The list
\* iterator reads the live list by index. The dict iterator raises
\* RuntimeError when the dict has another size than when the iteration
\* began; when keys were added and deleted and the size is the same, what
\* it does is left open by the language (it raises, ends, or goes on with a
\* key it has not given yet). The result is the set of the states it can
\* stop in.
RECURSIVE PerformHealthChecks(_, _)
PerformHealthChecks(map, h) ==
    IF h.service # None
    THEN LET list == IF h.stale THEN <<>> ELSE map[h.service]
             k == FirstEnabledAfter(list, h.inner)
         IN  IF k # 0
             THEN {[h EXCEPT !.inner = k, !.id = list[k].id, !.phase = "get"]}
             ELSE PerformHealthChecks(map,
                      [h EXCEPT !.service = None, !.id = None, !.inner = 0,
                                !.stale = FALSE])
    ELSE IF Cardinality(DOMAIN map) # h.size
    THEN {[h EXCEPT !.phase = "aborted", !.id = None]}
    ELSE IF h.changed
    THEN {[h EXCEPT !.phase = "aborted", !.id = None],
          [h EXCEPT !.phase = "done", !.id = None]}
         \cup UNION {PerformHealthChecks(map,
                         [h EXCEPT !.service = n, !.inner = 0,
                                   !.visited = @ \cup {n}]) :
                        n \in DOMAIN map \ h.visited}
    ELSE IF h.left = <<>>
    THEN {[h EXCEPT !.phase = "done", !.id = None]}
    ELSE PerformHealthChecks(map,
             [h EXCEPT !.service = Head(h.left), !.left = Tail(h.left),
                       !.visited = @ \cup {Head(h.left)}, !.inner = 0])

InitTick ==
    /\ now = 0
    /\ settings \in LifecycleSettings
    /\ breakers = EmptyMap
    /\ InitCell
    /\ services = EmptyMap
    /\ health = TickIdle
    /\ disc_index = EmptyMap
    /\ req_pc = [r \in Requests |-> "new"]
    /\ req = [r \in Requests |-> NewRequest]
    /\ last_done = None
    /\ run_5xx = 0
    /\ last_5xx_at = NoTime
    /\ IdleBalancer
    /\ IdleLimiter
    /\ rotation = RotationOff
    /\ returned = ReturnedOff
    /\ held = NoLocks

\* _health_check_loop calls _perform_health_checks, which runs to its first
\* GET. No instance has more than MaxRechecks recordings in a row.
TickStarts ==
    /\ health.phase = "sleeping"
    /\ \A n \in DOMAIN services : \A i \in 1..Len(services[n]) :
          /\ services[n][i].consecutive_failures < MaxRechecks
          /\ services[n][i].consecutive_successes < MaxRechecks
    /\ \E order \in Orders(DOMAIN services) :
          health' \in PerformHealthChecks(services,
              [TickIdle EXCEPT !.phase = "iterating", !.left = order,
                               !.size = Cardinality(DOMAIN services),
                               !.whole = EnabledIds(services)])
    /\ UNCHANGED <<now, settings, breakerVars, services, pipeVars, balancerVars>>
    /\ Takes(Sweep, <<>>)
    /\ UNCHANGED <<limiterVars, rotation, returned>>

\* The GET ends: the status is handed to update_service_status and the loops
\* go on to the next GET or to the end.
TickResult(outcome) ==
    /\ health.phase = "get"
    /\ services' = UpdateServiceStatus(services, health.service, health.id,
                                       HealthStatus(outcome), now)
    /\ health' \in PerformHealthChecks(services',
          [health EXCEPT !.checked =
              IF UpdateServiceStatusReturns(services, health.service, health.id)
              THEN Append(@, health.id) ELSE @])
    /\ UNCHANGED <<now, settings, breakerVars, pipeVars, balancerVars>>
    /\ Takes(Sweep, UpdateServiceStatusLocks)
    /\ UNCHANGED <<limiterVars, rotation, returned>>

\* The tick is over, by its end or by the exception _health_check_loop
\* catches: asyncio.sleep(check_interval).
TickSleeps ==
    /\ health.phase \in {"done", "aborted"}
    /\ health' = TickIdle
    /\ UNCHANGED <<now, settings, breakerVars, services, pipeVars, balancerVars>>
    /\ UNCHANGED <<limiterVars, rotation, returned, held>>

\* register_service(name, url) by another task, for a url the service does
\* not have.
TickRegister(name, url) ==
    /\ Registered(services) < MaxInstances + 1
    /\ name \in DOMAIN services =>
          \A i \in 1..Len(services[name]) : services[name][i].url # url
    /\ services' = RegisterService(services, name, url, "/", 1, now)
    /\ health' = IF health.phase = "get"
                 THEN [health EXCEPT !.touched = TRUE,
                                     !.changed = @ \/ name \notin DOMAIN services]
                 ELSE health
    /\ UNCHANGED <<now, settings, breakerVars, pipeVars, balancerVars>>
    /\ UNCHANGED <<limiterVars, rotation, returned, held>>

\* unregister_service(name, id) by another task, for a registered instance.
TickUnregister(name, i) ==
    /\ name \in DOMAIN services
    /\ i \in 1..Len(services[name])
    /\ services' = UnregisterService(services, name, services[name][i].id)
    /\ health' = IF health.phase = "get"
                 THEN [health EXCEPT
                          !.touched = TRUE,
                          !.whole = @ \ {services[name][i].id},
                          !.changed = @ \/ Len(services[name]) = 1,
                          !.stale = @ \/ (/\ name = health.service
                                          /\ Len(services[name]) = 1)]
                 ELSE health
    /\ UNCHANGED <<now, settings, breakerVars, pipeVars, balancerVars>>
    /\ UNCHANGED <<limiterVars, rotation, returned, held>>

NextTick ==
    \/ TickStarts
    \/ \E outcome \in Outcomes : TickResult(outcome)
    \/ TickSleeps
    \/ \E name \in TickNames, url \in TickUrls : TickRegister(name, url)
    \/ \E name \in TickNames, i \in 1..(MaxInstances + 1) : TickUnregister(name, i)

SpecTick == InitTick /\ [][NextTick]_vars

\* ---------------------------------------------------------------------------
\* The health tick and the instances it checks
\* ---------------------------------------------------------------------------

Recordings(id) ==
    Cardinality({k \in 1..Len(health.checked) : health.checked[k] = id})

TickOver == health.phase \in {"done", "aborted"}

EachCheckedOnce ==
    /\ health.phase = "done"
    /\ \A id \in health.whole : Recordings(id) = 1

\* C37: a health tick checks every instance that is registered and enabled
\* for the whole tick exactly once and records the result, also when
\* register_service and unregister_service run between the tick's GETs; the
\* tick is never aborted and skips no such instance.
C37_TickChecksSnapshot == TickOver => EachCheckedOnce

\* A tick that no register or unregister call interleaved with ends having
\* recorded one result for every instance.
UndisturbedTickChecksAll == (TickOver /\ ~health.touched) => EachCheckedOnce

\* A tick skipped an instance that was registered and enabled throughout,
\* without raising.
TickSkipsInstance ==
    ~(/\ health.phase = "done"
      /\ ~health.changed
      /\ \E id \in health.whole : Recordings(id) = 0)

\* A tick was aborted by the dict iterator.
TickAborted == health.phase # "aborted"


\* ---------------------------------------------------------------------------
\* The state changes of a breaker cell (src/gateway/core/circuit_breaker.py)
\* ---------------------------------------------------------------------------

CellTransitions ==
    {<<"closed", "open">>, <<"open", "half_open">>,
     <<"half_open", "closed">>, <<"half_open", "open">>}

\* The outcome of caller r's call is recorded, or the call is cancelled.
Completes(r) == FuncReturn(r) \/ FuncRaise(r) \/ FuncCancelled(r)

CellStep ==
    /\ (~HasCell /\ HasCell') => Cell'.state = "closed"
    /\ HasCell =>
          /\ HasCell'
          /\ ResetBreaker => /\ Cell'.state = "closed"
                             /\ Cell'.stats = NewStats
                             /\ Cell'.half_open_calls = 0
          /\ (Cell'.state # Cell.state /\ ~ResetBreaker)
                => <<Cell.state, Cell'.state>> \in CellTransitions
          /\ \A r \in Callers :
                (Cell.state = "open" /\ Completes(r)) => Cell'.state = "open"

\* C38: the state of a breaker cell changes only CLOSED -> OPEN,
\* OPEN -> HALF_OPEN, HALF_OPEN -> CLOSED, HALF_OPEN -> OPEN, and to CLOSED
\* by reset, which also zeroes every counter; the outcome of a call admitted
\* earlier that completes while the cell is OPEN leaves it OPEN, the cell
\* does not go OPEN -> CLOSED without reset and never CLOSED -> HALF_OPEN.
C38_OnlyMachineTransitions == [][CellStep]_vars

\* A call admitted before the cell opened returned while the cell was OPEN:
\* its success is in the statistics and the cell is still OPEN.
C38_Witness ==
    /\ HasCell
    /\ Cell.state = "open"
    /\ last_op = "success"
    /\ Cell.stats.consecutive_successes > 0
    /\ ~reset_since_open


\* ---------------------------------------------------------------------------
\* HALF_OPEN and the probes it admits (src/gateway/core/circuit_breaker.py)
\* ---------------------------------------------------------------------------

NoCallInFlight == \A r \in Callers : call_pc[r] # "running"

HalfOpenIdle == HasCell /\ Cell.state = "half_open" /\ NoCallInFlight

\* C39: a breaker cell is never locked in HALF_OPEN: whenever the cell is
\* HALF_OPEN and no call is in flight, _can_execute admits a further call,
\* that is half_open_calls is below half_open_max_calls.
C39_NoHalfOpenLockUp ==
    HalfOpenIdle => /\ CanExecute(Cell, now).ok
                    /\ Cell.half_open_calls < Cell.config.half_open_max_calls

\* While HALF_OPEN, half_open_calls is the number of successes recorded
\* since the cell entered HALF_OPEN, which is consecutive_successes, and it
\* is below success_threshold.
HalfOpenCallsAreSuccesses ==
    (HasCell /\ Cell.state = "half_open")
    => /\ Cell.half_open_calls = Cell.stats.consecutive_successes
       /\ Cell.half_open_calls = ho_successes
       /\ Cell.half_open_calls < Cell.config.success_threshold

\* With success_threshold <= half_open_max_calls an idle HALF_OPEN cell
\* admits the next call.
NoLockUpWhenThresholdFits ==
    (HalfOpenIdle /\ Cell.config.success_threshold <= Cell.config.half_open_max_calls)
    => CanExecute(Cell, now).ok


\* ---------------------------------------------------------------------------
\* SpecLazy: buckets and the breaker cell created on first use, by requests
\* that run concurrently (src/gateway/core/rate_limiter.py, _get_* and
\* is_allowed; src/gateway/core/circuit_breaker.py, get_breaker)
\* ---------------------------------------------------------------------------

\* The Settings object: limiter and breaker both on.
LazySettings ==
    [RATE_LIMIT_ENABLED : {TRUE},
     RATE_LIMIT_STRATEGY : LimitStrategies,
     RATE_LIMIT_REQUESTS_PER_MINUTE : 1..MaxRate,
     RATE_LIMIT_BURST_SIZE : {MaxRate},
     CIRCUIT_BREAKER_ENABLED : {TRUE},
     CIRCUIT_BREAKER_FAILURE_THRESHOLD : 1..MaxThreshold,
     CIRCUIT_BREAKER_SUCCESS_THRESHOLD : {1},
     CIRCUIT_BREAKER_TIMEOUT : {1},
     CIRCUIT_BREAKER_HALF_OPEN_MAX_CALLS : {1}]

\* lifespan built the RateLimiter and the CircuitBreakerManager: no bucket,
\* no cell.
InitLazy ==
    /\ now = 0
    /\ settings \in LazySettings
    /\ breakers = EmptyMap
    /\ InitCell
    /\ IdleGateway
    /\ IdleBalancer
    /\ IdleLimiter
    /\ rotation = RotationOff
    /\ returned = ReturnedOff
    /\ held = NoLocks

\* RateLimiter.cleanup(): the four dicts are cleared; the history of the
\* calls starts anew.
Cleanup ==
    /\ limiter # NewLimiter
    /\ limiter' = NewLimiter
    /\ calls' = EmptyMap
    /\ UNCHANGED <<now, settings, breakerVars, registryVars, pipeVars,
                   balancerVars, rotation, returned, held>>

\* All requests arrive at one clock reading: is_allowed calls of the client
\* identities, calls through the breaker of one service, and their outcomes.
NextLazy ==
    \/ \E identifier \in Identifiers, n \in TokenCounts :
          IsAllowedCall(identifier, n, "none")
    \/ Cleanup
    \/ \E r \in Callers : BreakerCall(r)
    \/ \E r \in Callers : FuncReturn(r)
    \/ \E r \in Callers : FuncRaise(r)

SpecLazy == InitLazy /\ [][NextLazy]_vars

\* ---------------------------------------------------------------------------
\* Lazy creation of buckets and cells
\* ---------------------------------------------------------------------------

DictNames == {"buckets", "leaky_buckets", "fixed_windows", "sliding_windows"}

\* Whatever step is not cleanup removes no bucket.
BucketsStay ==
    Cleanup \/ \A d \in DictNames : DOMAIN limiter[d] \subseteq DOMAIN limiter'[d]

\* A call of an identity that has a bucket works on that bucket; a call of
\* an identity that has none leaves one behind.
WorksOnTheBucket(id) ==
    LET call == calls'[id][Len(calls'[id])]
        strategy == settings.RATE_LIMIT_STRATEGY
    IN  /\ id \in DOMAIN Dict(limiter')
        /\ id \in DOMAIN Dict(limiter) =>
              Dict(limiter')[id] =
                  Take(strategy, Prepare(strategy, Dict(limiter)[id], now),
                       call.tokens, now).state
        /\ \A other \in DOMAIN Dict(limiter) \ {id} :
              Dict(limiter')[other] = Dict(limiter)[other]

\* A call through the breaker finds the cell that is there, and only the
\* first call creates one.
WorksOnTheCell(r) ==
    IF HasCell
    THEN Cell' = CanExecute(Cell, now).cell
    ELSE /\ HasCell'
         /\ Cell' = NewBreaker(settings)

Outcomes2Cell == {r \in Callers : call_pc[r] \in {"returned", "raised"}}

RECURSIVE AdmittedTokens(_, _)
\* The tokens consume admitted in the first k calls of id.
AdmittedTokens(id, k) ==
    IF k = 0 THEN 0
    ELSE AdmittedTokens(id, k - 1)
         + (IF k \in Admissions(id) THEN CallsOf(id)[k].tokens ELSE 0)

\* Every outcome recorded so far is in the statistics of the one cell, and
\* every admission of an identity since cleanup is in its fixed window.
AllCounted ==
    /\ HasCell => Cell.stats.total_calls = Cardinality(Outcomes2Cell)
    /\ ~HasCell => \A r \in Callers : call_pc[r] = "new"
    /\ settings.RATE_LIMIT_STRATEGY = "fixed_window" =>
          \A id \in Identifiers :
             IF id \in DOMAIN Dict(limiter)
             THEN Dict(limiter)[id].count = AdmittedTokens(id, Len(CallsOf(id)))
             ELSE CallsOf(id) = <<>>

LazySteps ==
    /\ BucketsStay
    /\ HasCell => HasCell'
    /\ \A id \in Identifiers : Consumes(id) => WorksOnTheBucket(id)
    /\ \A r \in Callers : BreakerCall(r) => WorksOnTheCell(r)

\* C40: lazy creation is race-free: of several concurrent requests for a
\* client identity without a bucket (a service without a cell) exactly one
\* creates the bucket (cell) and all of them work on it, no admission or
\* outcome is counted on a bucket or cell that is discarded, and a bucket
\* is removed only by cleanup.
C40_LazyCreationRaceFree == []AllCounted /\ [][LazySteps]_vars

\* Two requests of one new identity at one clock reading: the second was
\* rejected on the bucket the first one created; and two callers' outcomes
\* are both in the cell the first caller created.
C40_Witness ==
    /\ \E id \in Identifiers :
          /\ Len(CallsOf(id)) = 2
          /\ CallsOf(id)[1].allowed
          /\ ~CallsOf(id)[2].allowed
          /\ CallsOf(id)[2].tokens = 1
    /\ HasCell
    /\ Cardinality(Outcomes2Cell) >= 2
    /\ Cell.stats.total_calls = Cardinality(Outcomes2Cell)

====
